---- MODULE Spec2Model ----
(***************************************************************************)
(* rlox: a single-pass bytecode compiler and a stack VM for Lox.           *)
(*                                                                         *)
(* The model follows the Rust sources: the VM of src/vm.rs, the values of  *)
(* src/value.rs and src/object.rs, the chunk of src/chunk.rs and the       *)
(* parser of src/compiler/parser.rs with the methods of                    *)
(* src/compiler/parser/ (where a method exists in both, the split file      *)
(* is the one modelled).  A back quote in a message of the code is         *)
(* written as an apostrophe.                                               *)
(*                                                                         *)
(* A source text is a string; numbers are exact rationals.                 *)
(***************************************************************************)
EXTENDS Integers, Sequences, FiniteSets, TLC

VARIABLES
  chunk,      \* VM.chunk: [code, lines, constants]
  ip,         \* VM.ip
  stack,      \* VM.stack
  globals,    \* VM.globals: function from names to values
  strings,    \* VM.strings
  heap,       \* number of heap objects allocated so far (Box::into_raw)
  result,     \* what the last call returned: [kind, msg]
  running,    \* TRUE while the loop of VM::run is executing
  out,        \* the values printed by the current call, in order
  calls,      \* number of calls made on this VM
  last_call,  \* history: the last call, [op, src, pre, tokens]
  last_step,  \* history: the last instruction executed, with the state before it
  written,    \* history: for each name, the value of the last DefineGlobal or
              \* successful SetGlobal executed for it
  parser      \* the Parser of the compilation in progress, or of the last one

vars == <<chunk, ip, stack, globals, strings, heap, result, running, out, calls,
          last_call, last_step, written, parser>>

(***************************************************************************)
(* Bounds of the model.                                                    *)
(***************************************************************************)
MaxCalls == 2

(***************************************************************************)
(* Values (src/value.rs, src/object.rs).  A value is its tag and the       *)
(* payload the tag selects; the other fields hold a fixed filler.          *)
(***************************************************************************)
nil_val == [t |-> "Nil", b |-> FALSE, num |-> 0, den |-> 1, ptr |-> 0, data |-> ""]

bool_val(v) == [t |-> "Bool", b |-> v, num |-> 0, den |-> 1, ptr |-> 0, data |-> ""]

Abs(n) == IF n < 0 THEN -n ELSE n

RECURSIVE Gcd(_, _)
Gcd(a, b) == IF b = 0 THEN a ELSE Gcd(b, a % b)

Sign(n) == IF n > 0 THEN 1 ELSE IF n < 0 THEN -1 ELSE 0

\* An f64 as a reduced fraction; den = 0 is an infinity (num = 1 or -1) or NaN (num = 0).
Frac(n, d) ==
  IF d = 0 THEN [num |-> Sign(n), den |-> 0]
  ELSE LET g == Gcd(Abs(n), Abs(d))
           s == IF d < 0 THEN -1 ELSE 1
       IN  [num |-> (s * n) \div g, den |-> (s * d) \div g]

number_val(f) == [t |-> "Number", b |-> FALSE, num |-> f.num, den |-> f.den, ptr |-> 0, data |-> ""]

obj_val(p, s) == [t |-> "Obj", b |-> FALSE, num |-> 0, den |-> 1, ptr |-> p, data |-> s]

is_number(v) == v.t = "Number"

is_string(v) == v.t = "Obj"

as_number(v) == [num |-> v.num, den |-> v.den]

IsNaN(f) == f.den = 0 /\ f.num = 0

F64Neg(x) == Frac(-x.num, x.den)

F64Add(x, y) ==
  IF IsNaN(x) \/ IsNaN(y) THEN Frac(0, 0)
  ELSE IF x.den = 0 /\ y.den = 0 THEN (IF x.num = y.num THEN x ELSE Frac(0, 0))
  ELSE IF x.den = 0 THEN x
  ELSE IF y.den = 0 THEN y
  ELSE Frac(x.num * y.den + y.num * x.den, x.den * y.den)

F64Mul(x, y) ==
  IF IsNaN(x) \/ IsNaN(y) THEN Frac(0, 0)
  ELSE Frac(x.num * y.num, x.den * y.den)

F64Recip(x) == Frac(x.den, x.num)

F64Div(x, y) ==
  IF y.den = 0 /\ x.den = 0 THEN Frac(0, 0)
  ELSE IF y.den # 0 /\ y.num = 0 THEN Frac(x.num, 0)
  ELSE F64Mul(x, F64Recip(y))

F64Eq(x, y) == ~IsNaN(x) /\ ~IsNaN(y) /\ x = y

F64Lt(x, y) ==
  /\ ~IsNaN(x)
  /\ ~IsNaN(y)
  /\ IF x.den = 0 /\ y.den = 0 THEN x.num < y.num ELSE x.num * y.den < y.num * x.den

\* f64::partial_cmp: "Less", "Equal", "Greater" or "None".
F64Cmp(x, y) ==
  IF IsNaN(x) \/ IsNaN(y) THEN "None"
  ELSE IF F64Lt(x, y) THEN "Less"
  ELSE IF F64Lt(y, x) THEN "Greater"
  ELSE "Equal"

BoolCmp(x, y) ==
  IF x = y THEN "Equal" ELSE IF y THEN "Less" ELSE "Greater"

\* A result of an operation that can fail or abort: kind is "Ok", "RuntimeError",
\* "CompileError" or "Panic".
OkVal(v) == [kind |-> "Ok", msg |-> "", val |-> v]

ErrVal(k, m) == [kind |-> k, msg |-> m, val |-> nil_val]

\* impl PartialOrd for Value
partial_cmp(l, r) ==
  IF l.t # r.t THEN OkVal("None")
  ELSE IF l.t = "Bool" THEN OkVal(BoolCmp(l.b, r.b))
  ELSE IF l.t = "Nil" THEN OkVal("Equal")
  ELSE IF l.t = "Number" THEN OkVal(F64Cmp(as_number(l), as_number(r)))
  ELSE ErrVal("Panic", "not yet implemented")

\* impl PartialEq for Value
value_eq(l, r) ==
  IF l.t # r.t THEN OkVal(FALSE)
  ELSE IF l.t = "Bool" THEN OkVal(l.b = r.b)
  ELSE IF l.t = "Nil" THEN OkVal(TRUE)
  ELSE IF l.t = "Number" THEN OkVal(F64Eq(as_number(l), as_number(r)))
  ELSE ErrVal("Panic", "not yet implemented")

\* impl Not for Value
value_not(v) ==
  IF v.t = "Bool" THEN OkVal(bool_val(~v.b))
  ELSE IF v.t = "Nil" THEN OkVal(bool_val(TRUE))
  ELSE IF v.t = "Number" THEN ErrVal("RuntimeError", "Operand could only be 'boolean' or 'nil'.")
  ELSE ErrVal("Panic", "not yet implemented")

\* impl Neg for Value
value_neg(v) ==
  IF is_number(v) THEN OkVal(number_val(F64Neg(as_number(v))))
  ELSE ErrVal("RuntimeError", "Operand must be a number.")

\* impl Add / Sub / Mul / Div for Value: the four differ in the f64 operation only.
ArithF64(op, x, y) ==
  IF op = "Add" THEN F64Add(x, y)
  ELSE IF op = "Subtract" THEN F64Add(x, F64Neg(y))
  ELSE IF op = "Multiply" THEN F64Mul(x, y)
  ELSE F64Div(x, y)

\* The arithmetic applied to the number fields without the check of the tags
value_arith_unchecked(op, l, r) ==
  OkVal(number_val(ArithF64(op, as_number(l), as_number(r))))

value_arith(op, l, r) ==
  IF is_number(l) /\ is_number(r)
  THEN OkVal(number_val(ArithF64(op, as_number(l), as_number(r))))
  ELSE ErrVal("RuntimeError", "Operands must be numbers.")

\* Value::is_falsey: nil and false are falsey, every other value is truthy.
is_falsey(v) == v.t = "Nil" \/ (v.t = "Bool" /\ ~v.b)

(***************************************************************************)
(* Chunk (src/chunk.rs).  A byte of code is a number in 0..255; an opcode  *)
(* is the byte its position in the enum gives it.  The variants the VM     *)
(* dispatches on that the listing of chunk.rs does not hold follow it,     *)
(* before Return.                                                          *)
(***************************************************************************)
OpCodes ==
  << "Constant", "Nil", "True", "False", "Equal", "Greater", "Less", "NotEqual",
     "GreaterEqual", "LessEqual", "Add", "Subtract", "Multiply", "Divide", "Not",
     "Negate", "Pop", "GetLocal", "SetLocal", "GetGlobal", "DefineGlobal",
     "SetGlobal", "Jump", "JumpIfFalse", "Print", "Return" >>

\* OpCode as u8
OpByte(name) == (CHOOSE i \in 1..Len(OpCodes) : OpCodes[i] = name) - 1

\* impl From<u8> for OpCode: a byte that is no variant panics.
OpFromByte(b) == IF b + 1 \in 1..Len(OpCodes) THEN OpCodes[b + 1] ELSE "Invalid"

\* Chunk::init
EmptyChunk == [code |-> <<>>, lines |-> <<>>, constants |-> <<>>]

\* Chunk::write_chunk
write_chunk(c, byte, line) ==
  [c EXCEPT !.code = Append(@, byte), !.lines = Append(@, line)]

\* Chunk::add_constant: the chunk with the value appended; its index is the
\* length of the pool before.
add_constant(c, value) == [c EXCEPT !.constants = Append(@, value)]

(***************************************************************************)
(* Table (src/table.rs): a map keyed by the string's content.              *)
(***************************************************************************)
EmptyTable == [n \in {} |-> nil_val]

table_has(t, key) == key \in DOMAIN t

table_set(t, key, value) ==
  [n \in (DOMAIN t) \cup {key} |-> IF n = key THEN value ELSE t[n]]

table_remove(t, key) == [n \in (DOMAIN t) \ {key} |-> t[n]]

(***************************************************************************)
(* The VM (src/vm.rs).  A machine m is [chunk, ip, stack, globals, out];   *)
(* a step yields the machine after it and what the step returned.          *)
(***************************************************************************)
Pow2(n) == 2 ^ n

\* isize as usize: a negative value n becomes 2^64 + n.  The model's integers
\* have 32 bits, so the wrapped value is kept as 2^30 + n: like 2^64 + n it is
\* beyond the length of every chunk.
AsUsize(n) == IF n < 0 THEN Pow2(30) + n ELSE n

\* u16 as i16 as isize
U16AsI16(n) == IF n >= Pow2(15) THEN n - Pow2(16) ELSE n

StepOk(m) == [m |-> m, kind |-> "Ok", msg |-> ""]

StepPanic(m, why) == [m |-> m, kind |-> "Panic", msg |-> why]

\* VM::runtime_error leaving the stack as it is
runtime_error_keeps_stack(m, message) ==
  IF m.ip - 1 \notin 0..(Len(m.chunk.lines) - 1)
  THEN StepPanic(m, "index out of bounds")
  ELSE [m |-> m,
        kind |-> "RuntimeError",
        msg |-> "[line " \o ToString(m.chunk.lines[m.ip]) \o "] in script: " \o message]

\* VM::runtime_error: the line of code[ip - 1], the stack cleared.
runtime_error(m, message) ==
  IF m.ip - 1 \notin 0..(Len(m.chunk.lines) - 1)
  THEN StepPanic(m, "index out of bounds")
  ELSE [m |-> [m EXCEPT !.stack = <<>>],
        kind |-> "RuntimeError",
        msg |-> "[line " \o ToString(m.chunk.lines[m.ip]) \o "] in script: " \o message]

Top(st) == st[Len(st)]

PopN(st, n) == SubSeq(st, 1, Len(st) - n)

\* VM::unary_op with the operation of Not or Negate
unary_op(m, op) ==
  IF Len(m.stack) = 0 THEN runtime_error(m, "Operate on an empty stack.")
  ELSE LET v == Top(m.stack)
           m1 == [m EXCEPT !.stack = PopN(@, 1)]
           r == IF op = "Not" THEN value_not(v) ELSE value_neg(v)
       IN  IF r.kind = "Ok" THEN StepOk([m1 EXCEPT !.stack = Append(@, r.val)])
           ELSE IF r.kind = "Panic" THEN StepPanic(m1, r.msg)
           ELSE runtime_error(m1, r.msg)

\* The closure run_one_step gives to binary_op for each binary opcode.
BinaryResult(op, l, r) ==
  IF op \in {"Add", "Subtract", "Multiply", "Divide"} THEN value_arith(op, l, r)
  ELSE IF op \in {"Equal", "NotEqual"}
  THEN LET e == value_eq(l, r)
       IN  IF e.kind # "Ok" THEN ErrVal(e.kind, e.msg)
           ELSE OkVal(bool_val(IF op = "Equal" THEN e.val ELSE ~e.val))
  ELSE LET c == partial_cmp(l, r)
       IN  IF c.kind # "Ok" THEN ErrVal(c.kind, c.msg)
           ELSE OkVal(bool_val(
                  IF op = "Greater" THEN c.val = "Greater"
                  ELSE IF op = "Less" THEN c.val = "Less"
                  ELSE IF op = "GreaterEqual" THEN c.val \in {"Greater", "Equal"}
                  ELSE c.val \in {"Less", "Equal"}))

\* VM::binary_op applying the operation to the operands in the order of the pops
binary_op_popped_order(m, op) ==
  IF Len(m.stack) < 2
  THEN runtime_error([m EXCEPT !.stack = <<>>], "Operate on an empty stack.")
  ELSE LET b == m.stack[Len(m.stack)]
           a == m.stack[Len(m.stack) - 1]
           m1 == [m EXCEPT !.stack = PopN(@, 2)]
           r == BinaryResult(op, b, a)
       IN  IF r.kind = "Ok" THEN StepOk([m1 EXCEPT !.stack = Append(@, r.val)])
           ELSE IF r.kind = "Panic" THEN StepPanic(m1, r.msg)
           ELSE runtime_error(m1, r.msg)

\* VM::binary_op: both operands are popped (b first) before the operation is applied;
\* with one value on the stack that value is popped and the pattern fails.
binary_op(m, op) ==
  IF Len(m.stack) < 2
  THEN runtime_error([m EXCEPT !.stack = <<>>], "Operate on an empty stack.")
  ELSE LET b == m.stack[Len(m.stack)]
           a == m.stack[Len(m.stack) - 1]
           m1 == [m EXCEPT !.stack = PopN(@, 2)]
           r == BinaryResult(op, a, b)
       IN  IF r.kind = "Ok" THEN StepOk([m1 EXCEPT !.stack = Append(@, r.val)])
           ELSE IF r.kind = "Panic" THEN StepPanic(m1, r.msg)
           ELSE runtime_error(m1, r.msg)

InCode(m, i) == i \in 0..(Len(m.chunk.code) - 1)

\* VM::read_u16: big-endian, of the two bytes at ip; the machine has ip past them.
read_u16(m) == m.chunk.code[m.ip + 1] * 256 + m.chunk.code[m.ip + 2]

\* The jump of Jump and of a taken JumpIfFalse, ip being past the operand.
jump_target(ip_after, offset) == AsUsize(ip_after + U16AsI16(offset))

\* The value of the constant the operand byte at ip names (VM::read_constant), the
\* machine being at that byte.
ConstantAt(m) == m.chunk.constants[m.chunk.code[m.ip + 1] + 1]

ConstantInPool(m) == InCode(m, m.ip) /\ m.chunk.code[m.ip + 1] < Len(m.chunk.constants)

\* OpCode::DefineGlobal keeping the binding a name already has
DefineGlobalStep_keeps_first(m1) ==
  IF ~ConstantInPool(m1) THEN StepPanic(m1, "index out of bounds")
  ELSE LET name == ConstantAt(m1)
           m2 == [m1 EXCEPT !.ip = @ + 1]
       IN  IF ~is_string(name)
           THEN runtime_error(m2, "Expect a string as global variable name.")
           ELSE IF Len(m2.stack) = 0 THEN StepPanic(m2, "unwrap on None")
           ELSE IF table_has(m2.globals, name.data)
           THEN StepOk([m2 EXCEPT !.stack = PopN(@, 1)])
           ELSE StepOk([m2 EXCEPT !.stack = PopN(@, 1),
                                  !.globals = table_set(@, name.data, Top(m2.stack))])

\* OpCode::DefineGlobal
DefineGlobalStep(m1) ==
  IF ~ConstantInPool(m1) THEN StepPanic(m1, "index out of bounds")
  ELSE LET name == ConstantAt(m1)
           m2 == [m1 EXCEPT !.ip = @ + 1]
       IN  IF ~is_string(name)
           THEN runtime_error(m2, "Expect a string as global variable name.")
           ELSE IF Len(m2.stack) = 0 THEN StepPanic(m2, "unwrap on None")
           ELSE StepOk([m2 EXCEPT !.stack = PopN(@, 1),
                                  !.globals = table_set(@, name.data, Top(m2.stack))])

\* OpCode::GetGlobal
GetGlobalStep(m1) ==
  IF ~ConstantInPool(m1) THEN StepPanic(m1, "index out of bounds")
  ELSE LET name == ConstantAt(m1)
           m2 == [m1 EXCEPT !.ip = @ + 1]
       IN  IF ~is_string(name)
           THEN runtime_error(m2, "Expect a string as global variable name.")
           ELSE IF table_has(m2.globals, name.data)
           THEN StepOk([m2 EXCEPT !.stack = Append(@, m2.globals[name.data])])
           ELSE runtime_error(m2, "Undefined variable '" \o name.data \o "'.")

\* OpCode::SetGlobal without the removal of the binding it has just inserted
SetGlobalStep_keeps_binding(m1) ==
  IF ~ConstantInPool(m1) THEN StepPanic(m1, "index out of bounds")
  ELSE LET name == ConstantAt(m1)
           m2 == [m1 EXCEPT !.ip = @ + 1]
       IN  IF ~is_string(name)
           THEN runtime_error(m2, "Expect a string as global variable name.")
           ELSE IF Len(m2.stack) = 0 THEN StepPanic(m2, "unwrap on None")
           ELSE LET was == table_has(m2.globals, name.data)
                    m3 == [m2 EXCEPT !.globals = table_set(@, name.data, Top(m2.stack))]
                IN  IF was THEN StepOk(m3)
                    ELSE runtime_error(m3, "Undefined variable '" \o name.data \o "'.")

\* OpCode::SetGlobal: Table::set inserts and returns the value it replaced; when
\* there was none the binding is removed again and the step fails.
SetGlobalStep(m1) ==
  IF ~ConstantInPool(m1) THEN StepPanic(m1, "index out of bounds")
  ELSE LET name == ConstantAt(m1)
           m2 == [m1 EXCEPT !.ip = @ + 1]
       IN  IF ~is_string(name)
           THEN runtime_error(m2, "Expect a string as global variable name.")
           ELSE IF Len(m2.stack) = 0 THEN StepPanic(m2, "unwrap on None")
           ELSE LET was == table_has(m2.globals, name.data)
                    m3 == [m2 EXCEPT !.globals = table_set(@, name.data, Top(m2.stack))]
                IN  IF was THEN StepOk(m3)
                    ELSE runtime_error([m3 EXCEPT !.globals = table_remove(@, name.data)],
                                       "Undefined variable '" \o name.data \o "'.")

\* OpCode::GetLocal
GetLocalStep(m1) ==
  IF ~InCode(m1, m1.ip) THEN StepPanic(m1, "index out of bounds")
  ELSE LET slot == m1.chunk.code[m1.ip + 1]
           m2 == [m1 EXCEPT !.ip = @ + 1]
       IN  IF slot < Len(m2.stack)
           THEN StepOk([m2 EXCEPT !.stack = Append(@, m2.stack[slot + 1])])
           ELSE runtime_error(m2, "Undefined local variable at slot '" \o ToString(slot) \o "'.")

\* OpCode::SetLocal
SetLocalStep(m1) ==
  IF ~InCode(m1, m1.ip) THEN StepPanic(m1, "index out of bounds")
  ELSE LET slot == m1.chunk.code[m1.ip + 1]
           m2 == [m1 EXCEPT !.ip = @ + 1]
       IN  IF Len(m2.stack) = 0 THEN StepPanic(m2, "unwrap on None")
           ELSE IF slot < Len(m2.stack)
           THEN StepOk([m2 EXCEPT !.stack[slot + 1] = Top(m2.stack)])
           ELSE runtime_error(m2, "Undefined local variable at slot '" \o ToString(slot) \o "'.")

\* OpCode::Jump and OpCode::JumpIfFalse
JumpStep(m1, conditional) ==
  IF ~InCode(m1, m1.ip + 1) THEN StepPanic(m1, "index out of bounds")
  ELSE LET offset == read_u16(m1)
           m2 == [m1 EXCEPT !.ip = @ + 2]
       IN  IF conditional /\ Len(m2.stack) = 0 THEN StepPanic(m2, "unwrap on None")
           ELSE IF conditional /\ ~is_falsey(Top(m2.stack)) THEN StepOk(m2)
           ELSE StepOk([m2 EXCEPT !.ip = jump_target(m2.ip, offset)])

\* VM::run_one_step, the machine's ip being the index of an opcode byte.
run_one_step(m) ==
  LET op == OpFromByte(m.chunk.code[m.ip + 1])
      m1 == [m EXCEPT !.ip = @ + 1]
  IN  IF op = "Invalid" THEN StepPanic(m1, "Invalid value for enum")
      ELSE IF op = "Constant"
      THEN IF ~ConstantInPool(m1) THEN StepPanic(m1, "index out of bounds")
           ELSE StepOk([m1 EXCEPT !.ip = @ + 1, !.stack = Append(@, ConstantAt(m1))])
      ELSE IF op = "Nil" THEN StepOk([m1 EXCEPT !.stack = Append(@, nil_val)])
      ELSE IF op = "True" THEN StepOk([m1 EXCEPT !.stack = Append(@, bool_val(TRUE))])
      ELSE IF op = "False" THEN StepOk([m1 EXCEPT !.stack = Append(@, bool_val(FALSE))])
      ELSE IF op \in {"Equal", "Greater", "Less", "NotEqual", "GreaterEqual", "LessEqual",
                      "Add", "Subtract", "Multiply", "Divide"}
      THEN binary_op(m1, op)
      ELSE IF op \in {"Not", "Negate"} THEN unary_op(m1, op)
      ELSE IF op = "JumpIfFalse" THEN JumpStep(m1, TRUE)
      ELSE IF op = "Jump" THEN JumpStep(m1, FALSE)
      ELSE IF op = "Print"
      THEN IF Len(m1.stack) = 0
           THEN runtime_error(m1, "Expect a value after 'print' statement.")
           ELSE IF Top(m1.stack).t = "Obj"
           THEN StepPanic([m1 EXCEPT !.stack = PopN(@, 1)], "not yet implemented")
           ELSE StepOk([m1 EXCEPT !.stack = PopN(@, 1), !.out = Append(@, Top(m1.stack))])
      ELSE IF op = "Pop"
      THEN StepOk([m1 EXCEPT !.stack = IF Len(@) = 0 THEN @ ELSE PopN(@, 1)])
      ELSE IF op = "DefineGlobal" THEN DefineGlobalStep(m1)
      ELSE IF op = "GetGlobal" THEN GetGlobalStep(m1)
      ELSE IF op = "GetLocal" THEN GetLocalStep(m1)
      ELSE IF op = "SetGlobal" THEN SetGlobalStep(m1)
      ELSE IF op = "SetLocal" THEN SetLocalStep(m1)
      ELSE StepOk(m1)

\* The loop of VM::run goes on while ip is inside the code and the last step
\* returned no error.
RunContinues(m, kind) == kind = "Ok" /\ m.ip < Len(m.chunk.code)

\* VM::run from the machine m to the end of the loop
RECURSIVE run(_)
run(m) ==
  IF ~(m.ip < Len(m.chunk.code)) THEN StepOk(m)
  ELSE LET r == run_one_step(m)
       IN  IF RunContinues(r.m, r.kind) THEN run(r.m) ELSE r

(***************************************************************************)
(* The scanner (src/scanner.rs).  A scanner sc is [source, start, current, *)
(* line]; the byte at index i of the source is the character i + 1 of the  *)
(* string, and the byte 0 that peek gives at the end is the empty string.  *)
(***************************************************************************)
\* Token::default
DefaultToken == [token_type |-> "Eof", lexeme |-> "", line |-> 1]

\* Scanner::init_with / Scanner::rebind
BindScanner(src) == [source |-> src, start |-> 0, current |-> 0, line |-> 1]

DigitChars == {"0", "1", "2", "3", "4", "5", "6", "7", "8", "9"}

\* u8::is_ascii_identifier (src/utils.rs)
IdentifierChars ==
  {"a", "b", "c", "d", "e", "f", "g", "h", "i", "j", "k", "l", "m", "n", "o", "p", "q",
   "r", "s", "t", "u", "v", "w", "x", "y", "z", "A", "B", "C", "D", "E", "F", "G", "H",
   "I", "J", "K", "L", "M", "N", "O", "P", "Q", "R", "S", "T", "U", "V", "W", "X", "Y",
   "Z", "_"}

ByteAt(sc, i) == SubSeq(sc.source, i + 1, i + 1)

\* Scanner::is_at_end
is_at_end(sc) == sc.current >= Len(sc.source)

\* Scanner::peek
peek(sc) == IF is_at_end(sc) THEN "" ELSE ByteAt(sc, sc.current)

\* Scanner::peek_next
peek_next(sc) == IF sc.current + 1 >= Len(sc.source) THEN "" ELSE ByteAt(sc, sc.current + 1)

\* Scanner::advance_char, the scanner after it
advance_char(sc) == [sc EXCEPT !.current = @ + 1]

\* Scanner::make_token
make_token(sc, token_type) ==
  [token_type |-> token_type,
   lexeme |-> SubSeq(sc.source, sc.start + 1, sc.current),
   line |-> sc.line]

\* Scanner::error_token
error_token(sc, message) == [token_type |-> "Error", lexeme |-> message, line |-> sc.line]

\* The scanner past the rest of a line comment
RECURSIVE skip_comment(_)
skip_comment(sc) ==
  IF peek(sc) # "\n" /\ ~is_at_end(sc) THEN skip_comment(advance_char(sc)) ELSE sc

\* Scanner::skip_white_space
RECURSIVE skip_white_space(_)
skip_white_space(sc) ==
  LET c == peek(sc)
  IN  IF c \in {" ", "\r", "\t"} THEN skip_white_space(advance_char(sc))
      ELSE IF c = "\n" THEN skip_white_space(advance_char([sc EXCEPT !.line = @ + 1]))
      ELSE IF c = "/" /\ peek_next(sc) = "/" THEN skip_white_space(skip_comment(sc))
      ELSE sc

\* Scanner::check_keyword: the text that ends at current is compared with rest
check_keyword(sc, rest, candidate) ==
  IF sc.current >= Len(rest)
     /\ SubSeq(sc.source, sc.current - Len(rest) + 1, sc.current) = rest
  THEN candidate
  ELSE "Identifier"

\* Scanner::identifier_type
identifier_type(sc) ==
  LET c == ByteAt(sc, sc.start)
      d == ByteAt(sc, sc.start + 1)
  IN  IF c = "a" THEN check_keyword(sc, "nd", "And")
      ELSE IF c = "c" THEN check_keyword(sc, "lass", "Class")
      ELSE IF c = "e" THEN check_keyword(sc, "lse", "Else")
      ELSE IF c = "i" THEN check_keyword(sc, "f", "If")
      ELSE IF c = "n" THEN check_keyword(sc, "il", "Nil")
      ELSE IF c = "o" THEN check_keyword(sc, "r", "Or")
      ELSE IF c = "p" THEN check_keyword(sc, "rint", "Print")
      ELSE IF c = "r" THEN check_keyword(sc, "eturn", "Return")
      ELSE IF c = "s" THEN check_keyword(sc, "uper", "Super")
      ELSE IF c = "v" THEN check_keyword(sc, "ar", "Var")
      ELSE IF c = "w" THEN check_keyword(sc, "hile", "While")
      ELSE IF c = "f" /\ sc.current - sc.start > 1
      THEN IF d = "a" THEN check_keyword(sc, "lse", "False")
           ELSE IF d = "o" THEN check_keyword(sc, "r", "For")
           ELSE IF d = "u" THEN check_keyword(sc, "n", "Fun")
           ELSE "Identifier"
      ELSE IF c = "t" /\ sc.current - sc.start > 1
      THEN IF d = "h" THEN check_keyword(sc, "is", "This")
           ELSE IF d = "r" THEN check_keyword(sc, "ue", "True")
           ELSE "Identifier"
      ELSE "Identifier"

ScanResult(sc, token) == [sc |-> sc, token |-> token]

RECURSIVE skip_digits(_)
skip_digits(sc) == IF peek(sc) \in DigitChars THEN skip_digits(advance_char(sc)) ELSE sc

\* Scanner::number
scan_number(sc) ==
  LET sc1 == skip_digits(sc)
      sc2 == IF peek(sc1) = "." /\ peek_next(sc1) \in DigitChars
             THEN skip_digits(advance_char(sc1))
             ELSE sc1
  IN  ScanResult(sc2, make_token(sc2, "Number"))

\* Scanner::identifier
RECURSIVE skip_identifier(_)
skip_identifier(sc) ==
  IF peek(sc) \in IdentifierChars \cup DigitChars THEN skip_identifier(advance_char(sc))
  ELSE sc

scan_identifier(sc) ==
  LET sc1 == skip_identifier(sc)
  IN  ScanResult(sc1, make_token(sc1, identifier_type(sc1)))

\* Scanner::string
RECURSIVE skip_string(_)
skip_string(sc) ==
  IF peek(sc) # "\"" /\ ~is_at_end(sc)
  THEN skip_string(advance_char(IF peek(sc) = "\n" THEN [sc EXCEPT !.line = @ + 1] ELSE sc))
  ELSE sc

scan_string(sc) ==
  LET sc1 == skip_string(sc)
  IN  IF is_at_end(sc1) THEN ScanResult(sc1, error_token(sc1, "Unterminated string."))
      ELSE ScanResult(advance_char(sc1), make_token(advance_char(sc1), "String"))

\* Scanner::match_next
match_next(sc, expected) == ~is_at_end(sc) /\ ByteAt(sc, sc.current) = expected

\* The token of a character that may be followed by '='
TwoCharToken(sc, with_equal, without) ==
  IF match_next(sc, "=")
  THEN ScanResult(advance_char(sc), make_token(advance_char(sc), with_equal))
  ELSE ScanResult(sc, make_token(sc, without))

\* The scanner with the start of the next token at its current position
StartToken(sc) == [sc EXCEPT !.start = sc.current]

\* Scanner::scan_token after advance_char has returned c: sc is the scanner past c
ScanAfter(sc, c) ==
  IF c \in DigitChars THEN scan_number(sc)
  ELSE IF c \in IdentifierChars THEN scan_identifier(sc)
  ELSE IF c = "(" THEN ScanResult(sc, make_token(sc, "LeftParen"))
  ELSE IF c = ")" THEN ScanResult(sc, make_token(sc, "RightParen"))
  ELSE IF c = "{" THEN ScanResult(sc, make_token(sc, "LeftBrace"))
  ELSE IF c = "}" THEN ScanResult(sc, make_token(sc, "RightBrace"))
  ELSE IF c = ";" THEN ScanResult(sc, make_token(sc, "Semicolon"))
  ELSE IF c = "," THEN ScanResult(sc, make_token(sc, "Comma"))
  ELSE IF c = "." THEN ScanResult(sc, make_token(sc, "Dot"))
  ELSE IF c = "-" THEN ScanResult(sc, make_token(sc, "Minus"))
  ELSE IF c = "+" THEN ScanResult(sc, make_token(sc, "Plus"))
  ELSE IF c = "/" THEN ScanResult(sc, make_token(sc, "Slash"))
  ELSE IF c = "*" THEN ScanResult(sc, make_token(sc, "Star"))
  ELSE IF c = "!" THEN TwoCharToken(sc, "BangEqual", "Bang")
  ELSE IF c = "=" THEN TwoCharToken(sc, "EqualEqual", "Equal")
  ELSE IF c = "<" THEN TwoCharToken(sc, "LessEqual", "Less")
  ELSE IF c = ">" THEN TwoCharToken(sc, "GreaterEqual", "Greater")
  ELSE IF c = "\"" THEN scan_string(sc)
  ELSE ScanResult(sc, error_token(sc, "Unexpected character."))

\* Scanner::scan_token once the white space is skipped and start is reset
ScanFrom(sc) ==
  IF is_at_end(sc) THEN ScanResult(sc, make_token(sc, "Eof"))
  ELSE ScanAfter(advance_char(sc), ByteAt(sc, sc.current))

\* Scanner::scan_token: the scanner after the token, and the token
scan_token(sc0) == ScanFrom(StartToken(skip_white_space(sc0)))

(***************************************************************************)
(* The parser (src/compiler/parser.rs and src/compiler/parser/).  A parser *)
(* state p holds the fields of Parser and of its Compiler, the count of    *)
(* heap objects, and what the method just applied returned: res (Ok, a     *)
(* CompileError or a panic) and ret (the value of an Ok).                  *)
(***************************************************************************)
MAX_LOCALS == 256

DefaultLocal == [name |-> "", depth |-> 0, is_initialized |-> FALSE]

\* Compiler::default: the locals are a full array of default entries, which
\* add_local overwrites by index.
InitLocals == [i \in 1..MAX_LOCALS |-> DefaultLocal]

ResOk == [kind |-> "Ok", msg |-> ""]

\* Parser::init and Scanner::rebind
InitParser(src, heap0) ==
  [scanner |-> BindScanner(src), current |-> DefaultToken, previous |-> DefaultToken,
   chunk |-> EmptyChunk, had_error |-> FALSE, panic_mode |-> FALSE,
   locals |-> InitLocals, local_count |-> 0, scope_depth |-> 0,
   heap |-> heap0, res |-> ResOk, ret |-> 0]

IsOk(p) == p.res.kind = "Ok"

WithRet(p, v) == [p EXCEPT !.ret = v]

\* Err(InterpretError::CompileError(message))
CompileErr(p, message) == [p EXCEPT !.res = [kind |-> "CompileError", msg |-> message]]

Panicked(p, why) == [p EXCEPT !.res = [kind |-> "Panic", msg |-> why]]

\* The ? operator: F goes on from the parser p when the call that gave p returned
\* Ok, and p with its error is returned at once otherwise.
Try(p, F(_)) == IF IsOk(p) THEN F(p) ELSE p

\* Parser::error_at
error_at(p, if_current, message) ==
  IF p.panic_mode THEN p
  ELSE LET token == IF if_current THEN p.current ELSE p.previous
           where == IF token.token_type = "Eof" THEN " at end"
                    ELSE IF token.token_type = "Error" THEN ""
                    ELSE " at '" \o token.lexeme \o "'"
       IN  CompileErr([p EXCEPT !.panic_mode = TRUE, !.had_error = TRUE],
                      "[line " \o ToString(token.line) \o "] Error" \o where \o ": " \o message)

\* Parser::error_at_current
error_at_current(p, message) == error_at(p, TRUE, message)

\* Parser::error
error(p, message) == error_at(p, FALSE, message)

\* self.current = self.scanner.scan_token()
WithToken(p, scanned) == [p EXCEPT !.current = scanned.token, !.scanner = scanned.sc]

RECURSIVE advance_loop(_)

\* The loop of Parser::advance_token after the token is stored
AfterToken(p) ==
  IF p.current.token_type # "Error" THEN p
  ELSE Try(error_at_current(p, p.current.lexeme), LAMBDA p1 : advance_loop(p1))

\* The loop of Parser::advance_token
advance_loop(p) == AfterToken(WithToken(p, scan_token(p.scanner)))

\* Parser::advance_token
advance_token(p) == advance_loop([p EXCEPT !.previous = p.current])

\* Parser::consume_token
consume_token(p, token_type, message) ==
  IF p.current.token_type = token_type THEN advance_token(p)
  ELSE error_at_current(p, message)

\* Parser::check_token
check_token(p, expected_type) == p.current.token_type = expected_type

\* advance_token().unwrap(), and Ok(true)
Unwrapped(p) ==
  IF IsOk(p) THEN WithRet(p, TRUE)
  ELSE Panicked(p, "called Result::unwrap() on an Err value")

\* Parser::match_token: ret is whether the token matched
match_token(p, expected_type) ==
  IF ~check_token(p, expected_type) THEN WithRet(p, FALSE)
  ELSE Unwrapped(advance_token(p))

\* Parser::emit_byte
emit_byte(p, byte) == [p EXCEPT !.chunk = write_chunk(@, byte, p.previous.line)]

\* Parser::emit_bytes, of two bytes
emit_bytes(p, b1, b2) == emit_byte(emit_byte(p, b1), b2)

\* Parser::emit_return
emit_return(p) == emit_byte(p, OpByte("Return"))

\* Parser::end_compiler
end_compiler(p) == emit_return(p)

U8_MAX == 255

\* self.error(..).unwrap_err()
UnwrappedErr(p) ==
  IF IsOk(p) THEN Panicked(p, "called Result::unwrap_err() on an Ok value") ELSE p

\* Parser::make_constant refusing the index 255
make_constant_of_255(p, value) ==
  IF Len(p.chunk.constants) >= U8_MAX
  THEN UnwrappedErr(error([p EXCEPT !.chunk = add_constant(@, value)],
                          "Too many constants in one chunk."))
  ELSE WithRet([p EXCEPT !.chunk = add_constant(@, value)], Len(p.chunk.constants))

\* Parser::make_constant: ret is the index of the constant
make_constant(p, value) ==
  IF Len(p.chunk.constants) > U8_MAX
  THEN UnwrappedErr(error([p EXCEPT !.chunk = add_constant(@, value)],
                          "Too many constants in one chunk."))
  ELSE WithRet([p EXCEPT !.chunk = add_constant(@, value)], Len(p.chunk.constants))

\* Parser::emit_constant
emit_constant(p, value) ==
  Try(make_constant(p, value), LAMBDA p1 : emit_bytes(p1, OpByte("Constant"), p1.ret))

\* The index of the first byte of the operand just emitted: code.len() - 2
OperandAt(p) == WithRet(p, Len(p.chunk.code) - 2)

\* Parser::emit_jump: ret is the index of the operand's first byte
emit_jump(p, instruction) == OperandAt(emit_bytes(emit_byte(p, instruction), 255, 255))

U16_MAX == 65535

\* Parser::patch_jump measuring the jump from the operand's first byte
patch_jump_from_operand(p, offset) ==
  LET jump == Len(p.chunk.code) - offset
  IN  IF jump > U16_MAX THEN CompileErr(p, "Too much code to jump over.")
      ELSE [p EXCEPT !.chunk.code[offset + 1] = (jump \div 256) % 256,
                     !.chunk.code[offset + 2] = jump % 256]

\* Parser::patch_jump
patch_jump(p, offset) ==
  LET jump == Len(p.chunk.code) - offset - 2
  IN  IF jump > U16_MAX THEN CompileErr(p, "Too much code to jump over.")
      ELSE [p EXCEPT !.chunk.code[offset + 1] = (jump \div 256) % 256,
                     !.chunk.code[offset + 2] = jump % 256]

(***************************************************************************)
(* Precedence and the parse rules (src/compiler.rs, src/compiler/parser.rs)*)
(***************************************************************************)
Precedences ==
  << "None", "Assignment", "Or", "And", "Equality", "Comparison", "Term", "Factor",
     "Unary", "Call", "Primary" >>

\* Precedence as u8
Prec(name) == (CHOOSE i \in 1..Len(Precedences) : Precedences[i] = name) - 1

\* Precedence::next
PrecNext(n) == IF n = Prec("Primary") THEN n ELSE n + 1

Rule(prefix, infix, precedence) ==
  [prefix |-> prefix, infix |-> infix, precedence |-> Prec(precedence)]

\* RULES / Parser::get_rule
get_rule(token_type) ==
  IF token_type = "LeftParen" THEN Rule("grouping", "none", "None")
  ELSE IF token_type = "Minus" THEN Rule("unary", "binary", "Term")
  ELSE IF token_type = "Plus" THEN Rule("none", "binary", "Term")
  ELSE IF token_type \in {"Slash", "Star"} THEN Rule("none", "binary", "Factor")
  ELSE IF token_type = "Bang" THEN Rule("unary", "none", "None")
  ELSE IF token_type \in {"BangEqual", "EqualEqual"} THEN Rule("none", "binary", "Equality")
  ELSE IF token_type \in {"Greater", "GreaterEqual", "Less", "LessEqual"}
  THEN Rule("none", "binary", "Comparison")
  ELSE IF token_type = "Identifier" THEN Rule("variable", "none", "None")
  ELSE IF token_type = "String" THEN Rule("string", "none", "None")
  ELSE IF token_type = "Number" THEN Rule("number", "none", "None")
  ELSE IF token_type \in {"False", "Nil", "True"} THEN Rule("literal", "none", "None")
  ELSE Rule("none", "none", "None")

\* str::parse::<f64> on the lexeme of a Number token: digits, and digits after a
\* point.
Digits == "0123456789"

DigitValue(c) == (CHOOSE i \in 1..Len(Digits) : SubSeq(Digits, i, i) = c) - 1

RECURSIVE ParseDigits(_, _, _)
ParseDigits(lexeme, i, acc) ==
  IF i > Len(lexeme) \/ SubSeq(lexeme, i, i) = "." THEN [value |-> acc, next |-> i]
  ELSE ParseDigits(lexeme, i + 1, acc * 10 + DigitValue(SubSeq(lexeme, i, i)))

RECURSIVE Pow10(_)
Pow10(n) == IF n = 0 THEN 1 ELSE 10 * Pow10(n - 1)

ParseF64(lexeme) ==
  LET whole == ParseDigits(lexeme, 1, 0)
  IN  IF whole.next > Len(lexeme) THEN Frac(whole.value, 1)
      ELSE LET part == ParseDigits(lexeme, whole.next + 1, 0)
               scale == Pow10(Len(lexeme) - whole.next)
           IN  Frac(whole.value * scale + part.value, scale)

\* Parser::number
number(p) == emit_constant(p, number_val(ParseF64(p.previous.lexeme)))

\* ObjString::from(..).cast_to_obj_ptr(): a new heap object; the value points to it.
NewString(p, text) == obj_val(p.heap + 1, text)

Allocated(p) == [p EXCEPT !.heap = @ + 1]

\* Parser::string: the lexeme without its quotes
string(p) ==
  LET text == SubSeq(p.previous.lexeme, 2, Len(p.previous.lexeme) - 1)
  IN  emit_constant(Allocated(p), NewString(p, text))

\* Parser::literal
literal(p) ==
  IF p.previous.token_type = "False" THEN emit_byte(p, OpByte("False"))
  ELSE IF p.previous.token_type = "Nil" THEN emit_byte(p, OpByte("Nil"))
  ELSE IF p.previous.token_type = "True" THEN emit_byte(p, OpByte("True"))
  ELSE CompileErr(p, "Unknown literal operator.")

\* Parser::identifier_constant
identifier_constant(p) ==
  make_constant(Allocated(p), NewString(p, p.previous.lexeme))

\* The first index in 0..n-1 whose local has the name, or -1 (Iterator::position).
Position(locals, n, name) ==
  IF \E i \in 0..(n - 1) : locals[i + 1].name = name
  THEN CHOOSE i \in 0..(n - 1) :
         /\ locals[i + 1].name = name
         /\ \A j \in 0..(i - 1) : locals[j + 1].name # name
  ELSE -1

\* Parser::resolve_local: ret is the index found, or -1 for None
resolve_local(p) ==
  LET pos == Position(p.locals, p.local_count, p.previous.lexeme)
  IN  IF pos >= 0 /\ ~p.locals[pos + 1].is_initialized
      THEN CompileErr(p, "Can't read local variable in its own initializer.")
      ELSE WithRet(p, pos)

RECURSIVE parse_precedence(_, _)

\* Parser::expression
expression(p) == parse_precedence(p, Prec("Assignment"))

\* Parser::grouping
grouping(p) ==
  Try(expression(p), LAMBDA p1 : consume_token(p1, "RightParen", "Expect ')' after expression."))

\* Parser::unary
unary(p) ==
  Try(parse_precedence(p, Prec("Unary")),
      LAMBDA p1 :
        IF p.previous.token_type = "Bang" THEN emit_byte(p1, OpByte("Not"))
        ELSE IF p.previous.token_type = "Minus" THEN emit_byte(p1, OpByte("Negate"))
        ELSE CompileErr(p1, "Unknown unary operator."))

\* The opcode Parser::binary emits for an operator token
BinaryOp(operator_type) ==
  IF operator_type = "BangEqual" THEN "NotEqual"
  ELSE IF operator_type = "EqualEqual" THEN "Equal"
  ELSE IF operator_type = "Greater" THEN "Greater"
  ELSE IF operator_type = "GreaterEqual" THEN "GreaterEqual"
  ELSE IF operator_type = "Less" THEN "Less"
  ELSE IF operator_type = "LessEqual" THEN "LessEqual"
  ELSE IF operator_type = "Plus" THEN "Add"
  ELSE IF operator_type = "Minus" THEN "Subtract"
  ELSE IF operator_type = "Star" THEN "Multiply"
  ELSE IF operator_type = "Slash" THEN "Divide"
  ELSE "none"

\* Parser::binary parsing its right operand at the operator's own precedence
binary_operand_same_precedence(operator_type) == get_rule(operator_type).precedence

\* The precedence Parser::binary parses its right operand at
binary_operand_precedence(operator_type) == PrecNext(get_rule(operator_type).precedence)

\* Parser::binary
binary(p) ==
  Try(parse_precedence(p, binary_operand_precedence(p.previous.token_type)),
      LAMBDA p1 :
        IF BinaryOp(p.previous.token_type) = "none"
        THEN CompileErr(p1, "Unknown unary operator.")
        ELSE emit_byte(p1, OpByte(BinaryOp(p.previous.token_type))))

\* Parser::named_variable once arg and the two opcodes are chosen
variable_access(p, arg, get_op, set_op, can_assign) ==
  Try(IF can_assign THEN match_token(p, "Equal") ELSE WithRet(p, FALSE),
      LAMBDA p1 :
        IF p1.ret
        THEN Try(expression(p1), LAMBDA p2 : emit_bytes(p2, OpByte(set_op), arg))
        ELSE emit_bytes(p1, OpByte(get_op), arg))

\* Parser::named_variable (Parser::variable): a local when resolve_local found
\* one, and otherwise the global whose name identifier_constant adds
named_variable(p, can_assign) ==
  Try(resolve_local(p),
      LAMBDA p1 :
        Try(IF p1.ret >= 0 THEN p1 ELSE identifier_constant(p1),
            LAMBDA p2 :
              variable_access(p2, p2.ret % 256,
                              IF p1.ret >= 0 THEN "GetLocal" ELSE "GetGlobal",
                              IF p1.ret >= 0 THEN "SetLocal" ELSE "SetGlobal",
                              can_assign)))

\* The call of a rule's prefix or infix function
ApplyRule(p, fn, can_assign) ==
  IF fn = "grouping" THEN grouping(p)
  ELSE IF fn = "unary" THEN unary(p)
  ELSE IF fn = "binary" THEN binary(p)
  ELSE IF fn = "variable" THEN named_variable(p, can_assign)
  ELSE IF fn = "string" THEN string(p)
  ELSE IF fn = "number" THEN number(p)
  ELSE literal(p)

\* The while loop of Parser::parse_precedence
RECURSIVE infix_loop(_, _, _)
infix_loop(p, precedence, can_assign) ==
  IF ~(precedence <= get_rule(p.current.token_type).precedence) THEN p
  ELSE Try(advance_token(p),
           LAMBDA p1 :
             IF get_rule(p1.previous.token_type).infix = "none" THEN p1
             ELSE Try(ApplyRule(p1, get_rule(p1.previous.token_type).infix, can_assign),
                      LAMBDA p2 : infix_loop(p2, precedence, can_assign)))

\* The end of Parser::parse_precedence: an '=' left over is an error
assignment_target(p, can_assign) ==
  IF ~can_assign THEN WithRet(p, FALSE)
  ELSE Try(match_token(p, "Equal"),
           LAMBDA p1 : IF p1.ret THEN CompileErr(p1, "Invalid assignment target.") ELSE p1)

\* can_assign of Parser::parse_precedence taken as true at every precedence
CanAssign_always(precedence) == TRUE

\* can_assign of Parser::parse_precedence
CanAssign(precedence) == precedence <= Prec("Assignment")

\* Parser::parse_precedence
parse_precedence(p, precedence) ==
  LET can_assign == CanAssign(precedence)
  IN  Try(advance_token(p),
          LAMBDA p1 :
            IF get_rule(p1.previous.token_type).prefix = "none"
            THEN CompileErr(p1, "Expect expression.")
            ELSE Try(ApplyRule(p1, get_rule(p1.previous.token_type).prefix, can_assign),
                     LAMBDA p2 :
                       Try(infix_loop(p2, precedence, can_assign),
                           LAMBDA p3 : assignment_target(p3, can_assign))))

(***************************************************************************)
(* Variables (src/compiler/parser/variable_methods.rs)                     *)
(***************************************************************************)
\* The loop of Parser::declare_variable, from index i down: TRUE when a local of
\* the current scope already has the name, that is when the loop reaches a
\* local j of that name without a break at j or above it.
AlreadyDeclared(p, i) ==
  \E j \in 0..i :
    /\ p.previous.lexeme = p.locals[j + 1].name
    /\ \A k \in j..i :
         ~(p.locals[k + 1].is_initialized /\ p.locals[k + 1].depth < p.scope_depth)

\* Parser::add_local
add_local(p) ==
  IF p.local_count > U8_MAX
  THEN CompileErr(p, "Too many local variables in function(At most: 256).")
  ELSE [p EXCEPT !.locals[p.local_count + 1] =
                   [name |-> p.previous.lexeme, depth |-> p.scope_depth,
                    is_initialized |-> FALSE],
                 !.local_count = @ + 1]

\* Parser::declare_variable
declare_variable(p) ==
  IF p.scope_depth = 0 THEN p
  ELSE IF AlreadyDeclared(p, p.local_count - 1)
  THEN CompileErr(p, "Already a variable with this name in this scope.")
  ELSE add_local(p)

\* Parser::parse_variable: ret is the index of the name's constant, 0 for a local
parse_variable(p, message) ==
  Try(consume_token(p, "Identifier", message),
      LAMBDA p1 :
        Try(declare_variable(p1),
            LAMBDA p2 : IF p2.scope_depth > 0 THEN WithRet(p2, 0) ELSE identifier_constant(p2)))

\* Parser::mark_initialized
mark_initialized(p) ==
  IF p.local_count = 0 THEN Panicked(p, "attempt to subtract with overflow")
  ELSE [p EXCEPT !.locals[p.local_count].is_initialized = TRUE]

\* Parser::define_variable
define_variable(p, global_index) ==
  IF p.scope_depth > 0 THEN mark_initialized(p)
  ELSE emit_bytes(p, OpByte("DefineGlobal"), global_index)

\* Parser::var_declaration
var_declaration(p) ==
  Try(parse_variable(p, "Expect variable name."),
      LAMBDA p1 :
        LET global_index == p1.ret
        IN  Try(match_token(p1, "Equal"),
                LAMBDA p2 :
                  Try(IF p2.ret THEN expression(p2) ELSE emit_byte(p2, OpByte("Nil")),
                      LAMBDA p3 :
                        Try(consume_token(p3, "Semicolon",
                                          "Expect ';' after variable declaration."),
                            LAMBDA p4 : define_variable(p4, global_index)))))

(***************************************************************************)
(* Statements (src/compiler/parser/statement_methods.rs and                *)
(* src/compiler/parser.rs)                                                 *)
(***************************************************************************)
\* Parser::print_statement
print_statement(p) ==
  Try(expression(p),
      LAMBDA p1 :
        Try(consume_token(p1, "Semicolon", "Expect ';' after value."),
            LAMBDA p2 : emit_byte(p2, OpByte("Print"))))

\* Parser::expression_statement
expression_statement(p) ==
  Try(expression(p),
      LAMBDA p1 :
        Try(consume_token(p1, "Semicolon", "Expect ';' after expression."),
            LAMBDA p2 : emit_byte(p2, OpByte("Pop"))))

SyncTokens == {"Class", "Fun", "Var", "For", "If", "While", "Print", "Return"}

\* The loop of Parser::synchronize
RECURSIVE synchronize_loop(_)
synchronize_loop(p) ==
  IF p.current.token_type = "Eof" THEN p
  ELSE IF p.previous.token_type = "Semicolon" THEN p
  ELSE IF p.current.token_type \in SyncTokens THEN p
  ELSE Try(advance_token(p), LAMBDA p1 : synchronize_loop(p1))

\* Parser::synchronize
synchronize(p) == synchronize_loop([p EXCEPT !.panic_mode = FALSE])

\* Parser::begin_scope
begin_scope(p) == [p EXCEPT !.scope_depth = @ + 1]

\* n turns of the loop of Parser::end_scope: each turn is emit_byte(Pop), which
\* writes the byte and the line of the previous token, and local_count -= 1
end_scope_turns(p, n) ==
  [p EXCEPT !.chunk.code = @ \o [i \in 1..n |-> OpByte("Pop")],
            !.chunk.lines = @ \o [i \in 1..n |-> p.previous.line],
            !.local_count = @ - n]

\* The loop of Parser::end_scope: locals.last() is the last entry of the array.
\* No turn changes that entry or scope_depth, so the loop, once it has started,
\* ends only when local_count is 0.
end_scope_loop(p) ==
  IF p.local_count > 0 /\ p.locals[Len(p.locals)].depth > p.scope_depth
  THEN end_scope_turns(p, p.local_count)
  ELSE p

\* Parser::end_scope
end_scope(p) ==
  IF p.scope_depth = 0 THEN Panicked(p, "attempt to subtract with overflow")
  ELSE end_scope_loop([p EXCEPT !.scope_depth = @ - 1])

RECURSIVE declaration(_)
RECURSIVE statement(_)

\* The loop of Parser::block
RECURSIVE block_loop(_)
block_loop(p) ==
  IF check_token(p, "RightBrace") \/ check_token(p, "Eof") THEN p
  ELSE Try(declaration(p), LAMBDA p1 : block_loop(p1))

\* Parser::block
block(p) ==
  Try(block_loop(p), LAMBDA p1 : consume_token(p1, "RightBrace", "Expect '}' after block."))

\* Parser::if_statement after the then branch: p is the parser past it
else_branch(p, then_jump) ==
  Try(emit_jump(p, OpByte("Jump")),
      LAMBDA p1 :
        LET else_jump == p1.ret
        IN  Try(patch_jump(p1, then_jump),
                LAMBDA p2 :
                  Try(match_token(emit_byte(p2, OpByte("Pop")), "Else"),
                      LAMBDA p3 :
                        Try(IF p3.ret THEN statement(p3) ELSE p3,
                            LAMBDA p4 : patch_jump(p4, else_jump)))))

\* Parser::if_statement
if_statement(p) ==
  Try(consume_token(p, "LeftParen", "Expect '(' after 'if'."),
      LAMBDA p1 :
        Try(expression(p1),
            LAMBDA p2 :
              Try(consume_token(p2, "RightParen", "Expect ')' after condition."),
                  LAMBDA p3 :
                    Try(emit_jump(p3, OpByte("JumpIfFalse")),
                        LAMBDA p4 :
                          LET then_jump == p4.ret
                          IN  Try(statement(emit_byte(p4, OpByte("Pop"))),
                                  LAMBDA p5 : else_branch(p5, then_jump))))))

\* The branch of statement for an if statement: the if token is matched and
\* if_statement parses the rest.
statement_if(p) == if_statement(p)

\* Parser::statement
statement(p) ==
  Try(match_token(p, "Print"),
      LAMBDA p1 :
        IF p1.ret THEN print_statement(p1)
        ELSE Try(match_token(p1, "If"),
                 LAMBDA p2 :
                   IF p2.ret THEN statement_if(p2)
                   ELSE Try(match_token(p2, "LeftBrace"),
                            LAMBDA p3 :
                              IF p3.ret
                              THEN Try(block(begin_scope(p3)), LAMBDA p4 : end_scope(p4))
                              ELSE expression_statement(p3))))

\* Parser::declaration
declaration(p) ==
  Try(match_token(p, "Var"),
      LAMBDA p1 :
        Try(IF p1.ret THEN var_declaration(p1) ELSE statement(p1),
            LAMBDA p2 : IF p2.panic_mode THEN synchronize(p2) ELSE p2))

\* The loop of VM::compile: declarations until Eof is matched
RECURSIVE compile_loop(_)
compile_loop(p) ==
  Try(match_token(p, "Eof"),
      LAMBDA p1 : IF p1.ret THEN p1 ELSE Try(declaration(p1), LAMBDA p2 : compile_loop(p2)))

\* VM::compile: the parser after the compilation; its chunk is installed in the VM
\* when res is Ok.
compile(src, heap0) ==
  Try(Try(advance_token(InitParser(src, heap0)), LAMBDA p1 : compile_loop(p1)),
      LAMBDA p2 : end_compiler(p2))

\* VM::compile_to_token: the tokens it prints, up to the first Eof or Error token
RECURSIVE scan_all(_, _)
scan_all(sc, printed) ==
  LET scanned == scan_token(sc)
  IN  IF scanned.token.token_type \in {"Eof", "Error"} THEN Append(printed, scanned.token)
      ELSE scan_all(scanned.sc, Append(printed, scanned.token))

compile_to_token(src) == scan_all(BindScanner(src), <<>>)

(***************************************************************************)
(* The disassembler (src/debug.rs): the opcodes of a code, in order.       *)
(***************************************************************************)
\* The number of operand bytes disassemble_instruction steps over
OperandWidth(op) ==
  IF op \in {"Constant", "DefineGlobal", "GetGlobal", "SetGlobal", "GetLocal", "SetLocal"}
  THEN 1
  ELSE IF op \in {"Jump", "JumpIfFalse"} THEN 2
  ELSE 0

\* The loop of disassemble from the offset i: the opcode of each instruction
RECURSIVE disassemble(_, _)
disassemble(code, i) ==
  IF i >= Len(code) THEN <<>>
  ELSE <<OpFromByte(code[i + 1])>>
         \o disassemble(code, i + 1 + OperandWidth(OpFromByte(code[i + 1])))

(***************************************************************************)
(* The calls on one VM (src/vm.rs).  A call of interpret compiles and then *)
(* runs; the loop of run is one Step per instruction, and no other call    *)
(* starts before the loop has ended.  A panic ends the process.            *)
(***************************************************************************)
\* The conditions of the if statements interpreted
Conditions == {"true", "false", "nil", "0", "1 < 2", "2 < 1"}

IfElseSource(cond) == "if (" \o cond \o ") print 1; else print 2; print 3;"

IfSource(cond) == "if (" \o cond \o ") print 1; print 3;"

IfSources == {IfElseSource(c) : c \in Conditions} \cup {IfSource(c) : c \in Conditions}

Programs ==
  IfSources \cup
  { "{ var a = 1; { var a = 2; print a; } print a; }",
    "var x = 1; print x;",
    "var x = 2; x = x + 3; print x;",
    "var y; print y == nil;",
    "var y = true; y = x;",
    "print x;",
    "x = 5;",
    "print x = 7;",
    "print (6 - 1 - 2) / 0.5;",
    "print 1 + 2 * 3;",
    "print 1 >= nil;",
    "print !nil != !1;",
    "print 1 + nil;",
    "print -nil;",
    "print true > false;",
    "print ;",
    "var = 1;",
    "print \"a\";",
    "print 1 @ 2;",
    "" }

\* The contents of the files interpret_file is called on
FilePrograms == {"var x = 1; print x;", "print 1 @ 2;", ""}

Machine == [chunk |-> chunk, ip |-> ip, stack |-> stack, globals |-> globals, out |-> out]

PreState ==
  [chunk |-> chunk, ip |-> ip, stack |-> stack, globals |-> globals, strings |-> strings,
   heap |-> heap]

NoStep ==
  [ops |-> <<>>, op |-> "none", arg |-> "",
   pre |-> [ip |-> 0, stack |-> <<>>, globals |-> EmptyTable], kind |-> "none", msg |-> ""]

GlobalOps == {"DefineGlobal", "GetGlobal", "SetGlobal"}

\* The name a DefineGlobal, GetGlobal or SetGlobal at ip has as its operand
GlobalName(m) ==
  LET m1 == [m EXCEPT !.ip = @ + 1]
  IN  IF OpFromByte(m.chunk.code[m.ip + 1]) \in GlobalOps
         /\ ConstantInPool(m1) /\ is_string(ConstantAt(m1))
      THEN ConstantAt(m1).data
      ELSE ""

NoResult == [kind |-> "None", msg |-> ""]

Init ==
  /\ chunk = EmptyChunk
  /\ ip = 0
  /\ stack = <<>>
  /\ globals = EmptyTable
  /\ strings = EmptyTable
  /\ heap = 0
  /\ result = NoResult
  /\ running = FALSE
  /\ out = <<>>
  /\ calls = 0
  /\ last_call = [op |-> "none", src |-> "", pre |-> PreState, tokens |-> <<>>]
  /\ last_step = NoStep
  /\ written = EmptyTable
  /\ parser = InitParser("", 0)

Idle == ~running /\ result.kind # "Panic" /\ calls < MaxCalls

\* VM::rebind
rebind(c) == [chunk |-> c, ip |-> 0]

\* VM::interpret up to the loop of VM::run: bound is what rebind assigns and p the
\* parser VM::compile ends with
Compiled(bound, p) ==
  /\ chunk' = IF IsOk(p) THEN p.chunk ELSE bound.chunk
  /\ ip' = bound.ip
  /\ heap' = p.heap
  /\ running' = (IsOk(p) /\ bound.ip < Len(p.chunk.code))
  /\ result' = IF IsOk(p) THEN [kind |-> "Ok", msg |-> ""] ELSE p.res
  /\ parser' = p

\* VM::interpret up to the loop of VM::run
Interpret(src) ==
  /\ Idle
  /\ Compiled(rebind(EmptyChunk), compile(src, heap))
  /\ out' = <<>>
  /\ calls' = calls + 1
  /\ last_call' = [op |-> "interpret", src |-> src, pre |-> PreState, tokens |-> <<>>]
  /\ last_step' = NoStep
  /\ UNCHANGED <<stack, globals, strings, written>>

\* The VM after the step r of run_one_step on the instruction at ip
Stepped(r) ==
  /\ chunk' = r.m.chunk
  /\ ip' = r.m.ip
  /\ stack' = r.m.stack
  /\ globals' = r.m.globals
  /\ out' = r.m.out
  /\ result' = IF last_call.op = "interpret_chunk" /\ r.kind = "RuntimeError"
               THEN [kind |-> "RuntimeError", msg |-> "Failed to run the chunk."]
               ELSE [kind |-> r.kind, msg |-> r.msg]
  /\ running' = RunContinues(r.m, r.kind)
  /\ last_step' = [ops |-> Append(last_step.ops, OpFromByte(chunk.code[ip + 1])),
                   op |-> OpFromByte(chunk.code[ip + 1]),
                   arg |-> GlobalName(Machine),
                   pre |-> [ip |-> ip, stack |-> stack, globals |-> globals],
                   kind |-> r.kind, msg |-> r.msg]
  /\ written' = IF r.kind = "Ok"
                   /\ OpFromByte(chunk.code[ip + 1]) \in {"DefineGlobal", "SetGlobal"}
                THEN table_set(written, GlobalName(Machine), Top(stack))
                ELSE written

\* One turn of the loop of VM::run; interpret_chunk gives its own error for an
\* error of the run.
Step ==
  /\ running
  /\ Stepped(run_one_step(Machine))
  /\ UNCHANGED <<strings, heap, calls, last_call, parser>>

\* VM::interpret_file on a file that can be read: VM::interpret_to_token
InterpretFile(src) ==
  /\ Idle
  /\ result' = [kind |-> "Ok", msg |-> ""]
  /\ out' = <<>>
  /\ calls' = calls + 1
  /\ last_call' = [op |-> "interpret_file", src |-> src, pre |-> PreState,
                   tokens |-> compile_to_token(src)]
  /\ last_step' = NoStep
  /\ UNCHANGED <<chunk, ip, stack, globals, strings, heap, running, written, parser>>

\* VM::interpret_file on a path that cannot be read
InterpretMissingFile ==
  /\ Idle
  /\ result' = [kind |-> "CompileError", msg |-> "Failed to interpret from file."]
  /\ out' = <<>>
  /\ calls' = calls + 1
  /\ last_call' = [op |-> "interpret_file", src |-> "", pre |-> PreState, tokens |-> <<>>]
  /\ last_step' = NoStep
  /\ UNCHANGED <<chunk, ip, stack, globals, strings, heap, running, written, parser>>

Next ==
  \/ \E src \in Programs : Interpret(src)
  \/ Step
  \/ \E src \in FilePrograms : InterpretFile(src)
  \/ InterpretMissingFile

Spec == Init /\ [][Next]_vars

\* What VM::interpret leaves when the run of the chunk of p has ended with r
Ran(p, r) ==
  [result |-> [kind |-> r.kind, msg |-> r.msg], chunk |-> p.chunk, ip |-> r.m.ip,
   stack |-> r.m.stack, globals |-> r.m.globals]

\* VM::interpret once VM::compile has ended with the parser p
interpret_compiled(p, pre) ==
  IF ~IsOk(p)
  THEN [result |-> p.res, chunk |-> EmptyChunk, ip |-> 0, stack |-> pre.stack,
        globals |-> pre.globals]
  ELSE Ran(p, run([chunk |-> p.chunk, ip |-> 0, stack |-> pre.stack,
                   globals |-> pre.globals, out |-> <<>>]))

\* VM::interpret as one function of the source and of the VM before the call
interpret(src, pre) == interpret_compiled(compile(src, pre.heap), pre)

(***************************************************************************)
(* Chunks assembled by hand, as tests/vm_hand_compile.rs does, and run     *)
(* by interpret_chunk: the operands are constants of the chunk.            *)
(***************************************************************************)
HandLine == 123

Operands ==
  { nil_val, bool_val(TRUE), bool_val(FALSE), number_val(Frac(0, 1)), number_val(Frac(1, 1)),
    number_val(Frac(-2, 1)), number_val(Frac(1, 2)), obj_val(1, "a") }

\* Chunk::add_constant and the two bytes of the Constant instruction
WithConstant(c, value) ==
  write_chunk(write_chunk(add_constant(c, value), OpByte("Constant"), HandLine),
              Len(c.constants), HandLine)

WithOp(c, op) == write_chunk(c, OpByte(op), HandLine)

BinaryOps ==
  {"Equal", "Greater", "Less", "NotEqual", "GreaterEqual", "LessEqual", "Add", "Subtract",
   "Multiply", "Divide"}

UnaryOps == {"Not", "Negate"}

\* The chunks with no value or one value below the operands
Bases == {EmptyChunk, WithConstant(EmptyChunk, number_val(Frac(1, 1)))}

HandChunks ==
  { WithOp(WithOp(WithConstant(WithConstant(base, a), b), op), "Return") :
      base \in Bases, a \in Operands, b \in Operands, op \in BinaryOps }
  \cup
  { WithOp(WithOp(WithConstant(base, a), op), "Return") :
      base \in Bases, a \in Operands, op \in UnaryOps }

\* VM::interpret_chunk up to the loop of VM::run
InterpretChunk(c) ==
  /\ Idle
  /\ chunk' = c
  /\ ip' = 0
  /\ running' = (0 < Len(c.code))
  /\ result' = [kind |-> "Ok", msg |-> ""]
  /\ out' = <<>>
  /\ calls' = calls + 1
  /\ last_call' = [op |-> "interpret_chunk", src |-> "", pre |-> PreState, tokens |-> <<>>]
  /\ last_step' = NoStep
  /\ UNCHANGED <<stack, globals, strings, heap, written, parser>>

\* The one call of a behaviour
ChunkInterpret == calls = 0 /\ \E c \in HandChunks : InterpretChunk(c)

NextChunk ==
  \/ ChunkInterpret
  \/ Step

SpecChunk == Init /\ [][NextChunk]_vars

(***************************************************************************)
(* The compilation of expressions: one call of interpret on a print        *)
(* statement of an expression of three operands, each with or without a    *)
(* unary operator, or of four operands.                                    *)
(***************************************************************************)
\* An operator is written in two columns and the place of a unary operator in
\* one, with blanks, which the scanner skips.
BinaryOperators == {"==", "!=", "< ", "<=", "> ", ">=", "+ ", "- ", "* ", "/ "}

UnaryOperators == {" ", "-", "!"}

SomeBinaryOperators == {"==", "< ", "+ ", "- ", "* ", "/ "}

ExprShapes ==
  { [unary |-> <<u1, u2, u3>>, binary |-> <<op1, op2>>] :
      u1 \in UnaryOperators, u2 \in UnaryOperators, u3 \in UnaryOperators,
      op1 \in BinaryOperators, op2 \in BinaryOperators }
  \cup
  { [unary |-> <<" ", " ", " ", " ">>, binary |-> <<op1, op2, op3>>] :
      op1 \in SomeBinaryOperators, op2 \in SomeBinaryOperators,
      op3 \in SomeBinaryOperators }

\* The text of the expression: the operands are the numbers 1, 2, ...
RECURSIVE ExprText(_, _)
ExprText(e, i) ==
  IF i = Len(e.unary) THEN e.unary[i] \o ToString(i)
  ELSE e.unary[i] \o ToString(i) \o " " \o e.binary[i] \o " " \o ExprText(e, i + 1)

ExprSource(e) == "print " \o ExprText(e, 1) \o ";"

ExprSources == {ExprSource(e) : e \in ExprShapes}

\* The one call of a behaviour
ExprInterpret == calls = 0 /\ \E src \in ExprSources : Interpret(src)

NextExpr ==
  \/ ExprInterpret
  \/ Step

SpecExpr == Init /\ [][NextExpr]_vars

(***************************************************************************)
(* The compilation and the run of one source text on a fresh VM: programs  *)
(* of one statement of each kind, programs with strings, with assignments  *)
(* and with errors of the scanner and of the parser.                       *)
(***************************************************************************)
StringProgram == "print \"hi\" == \"hi\";"

StatementSources ==
  { "print 1;",
    "1 + 2;",
    "var g = 1;",
    "if (true) print 1;",
    "if (nil) 1; else 2;",
    "{ print 1; }",
    "{ var a = 1; }",
    "{ var a = 1; var b = 2; print a + b; }",
    "{ var a = 1; { var b = 2; } print a; }",
    "var x = 2; x = x + 3; print x;" }

\* Sources with a character that starts no token or with a string that has no
\* closing quote
ErrorTokenSources ==
  { "@",
    "\"abc",
    "1 + @;",
    "print 1 @ 2;",
    "print 1 + \"abc",
    "print \"abc",
    "print @;",
    "var x = \"abc" }

\* Sources in which a declaration has a syntax error
ErrorSources ==
  { "print ;",
    "print 1",
    "print 1 2; print 3;",
    "var = 1; print 2;",
    "print ; var = 1;",
    "var x = ; var = 2;",
    "{ var a = 1; var a = 2; }",
    "{ var a = a; }",
    "print 1\n2;",
    "(1;" }

\* Sources with an '=' after an expression that is no assignment target
InvalidTargetSources ==
  { "a + b = c;",
    "a * b = c;",
    "-a = 1;",
    "!a = 1;",
    "(a) = 1;",
    "1 = 2;",
    "a = b + c = 3;",
    "{ var a = 1; var b = 2; a + b = 3; }" }

\* Sources with assignments
AssignmentSources ==
  { "a = 1;",
    "a = b = 2;",
    "var a; a = 1 + 2;",
    "{ var a = 1; a = 2; }",
    "{ var a = 1; var b; b = a = 3; }" }

\* Blocks in which a local's initializer reads the name being declared
OwnInitializerSources ==
  { "{ var a = a; }",
    "{ var a = -a; }",
    "{ var a = 1 + a; }",
    "{ var b = 1; var a = a; }",
    "{ var a = 1; { var a = a; } }",
    "{ var a = 1; { var a = a + 1; print a; } }" }

\* Blocks that declare a name twice in one scope
SameScopeSources ==
  { "{ var a = 1; var a = 2; }",
    "{ var a; var b; var a; }",
    "{ var b = 1; { var a = 1; var a = 2; } }",
    "{ var a = 1; { var b = 2; } var a = 3; }" }

\* Blocks that declare a name twice, in a scope and in one it encloses or in two
\* blocks one after the other
OtherScopeSources ==
  { "{ var a = 1; { var a = 2; } }",
    "{ var a = 1; var b = 2; { var a = 3; } }",
    "{ { var a = 1; } { var a = 2; } }",
    "{ { var a = 1; } var a = 2; }",
    "{ var a = 1; } { var a = 2; }" }

\* Blocks that read locals: a shadowed one, one declared after a closed block,
\* one assigned to, one declared after a block that is not run
LocalReadSources ==
  { "{ var a = 1; { var a = 2; print a; } print a; }",
    "{ { var a = 1; } var b = 2; print b; }",
    "{ var a = 1; { var b = 2; } var c = 3; print c; print a; }",
    "{ var a = 1; var b = 5; b = 3; print a; print b; }",
    "{ if (false) { var a = 1; } var b = 2; print b; }" }

SourcePrograms ==
  {StringProgram} \cup StatementSources \cup ErrorTokenSources \cup ErrorSources
    \cup InvalidTargetSources \cup AssignmentSources \cup OwnInitializerSources
    \cup SameScopeSources \cup OtherScopeSources \cup LocalReadSources

\* The one call of a behaviour
ProgramInterpret == calls = 0 /\ \E src \in SourcePrograms : Interpret(src)

NextProgram ==
  \/ ProgramInterpret
  \/ Step

SpecProgram == Init /\ [][NextProgram]_vars

(***************************************************************************)
(* Jumps over code of every length patch_jump accepts.  The operand is the *)
(* one patch_jump writes for a jump whose operand is at index 1 of a code  *)
(* of the given length; it is then the operand of a Jump or a JumpIfFalse  *)
(* of a short hand-assembled chunk, which interpret_chunk runs.            *)
(***************************************************************************)
\* The lengths of the code when the jump is patched: the jump is over
\* length - 3 bytes.
PatchedLengths == {3, 4, 5, 6, 32770, 32771, 65537, 65538}

CodeOfLength(n) == [i \in 1..n |-> OpByte("Nil")]

\* The parser after emit_jump at the start of a code of n bytes and patch_jump(1)
Patched(n) == patch_jump([InitParser("", 0) EXCEPT !.chunk.code = CodeOfLength(n)], 1)

\* The two bytes patch_jump has written
PatchedOperand(n) == SubSeq(Patched(n).chunk.code, 2, 3)

JumpOperands == {PatchedOperand(n) : n \in PatchedLengths}

RECURSIVE WithOps(_, _)
WithOps(c, ops) ==
  IF ops = <<>> THEN c ELSE WithOps(WithOp(c, ops[1]), SubSeq(ops, 2, Len(ops)))

\* What is pushed before the jump
JumpPrefixes == {<<"Nil">>, <<"False">>, <<"True">>, <<"True", "Nil">>, <<"Nil", "True">>}

\* The instructions after the jump's operand
JumpTail == <<"Nil", "True", "Pop", "Return">>

JumpChunk(prefix, op, operand) ==
  WithOps(write_chunk(write_chunk(WithOps(EmptyChunk, Append(prefix, op)),
                                  operand[1], HandLine),
                      operand[2], HandLine),
          JumpTail)

JumpChunks ==
  { JumpChunk(prefix, op, operand) :
      prefix \in JumpPrefixes, op \in {"Jump", "JumpIfFalse"}, operand \in JumpOperands }

\* The one call of a behaviour
JumpInterpret == calls = 0 /\ \E c \in JumpChunks : InterpretChunk(c)

NextJump ==
  \/ JumpInterpret
  \/ Step

SpecJump == Init /\ [][NextJump]_vars

(***************************************************************************)
(* A chunk under construction (src/chunk.rs, emit_methods.rs): any         *)
(* sequence of write_chunk, add_constant and clear, and of the parser's    *)
(* emit_byte, emit_jump and patch_jump on it.  The variable chunk is the   *)
(* chunk being built; last_call records the operation applied last.        *)
(***************************************************************************)
\* The lines vector grows to this length at most.
MaxCodeLen == 4

\* Chunk::clear
clear(c) == [c EXCEPT !.code = <<>>, !.constants = <<>>]

BuildBytes == {OpByte("Nil"), OpByte("Return")}

BuildLines == {1, 2}

\* A parser that holds the chunk, its previous token on the given line
ParserOn(c, line) == [InitParser("", 0) EXCEPT !.chunk = c, !.previous.line = line]

Built(op, c) ==
  /\ chunk' = c
  /\ last_call' = [op |-> op, src |-> "", pre |-> PreState, tokens |-> <<>>]
  /\ UNCHANGED <<ip, stack, globals, strings, heap, result, running, out, calls,
                 last_step, written, parser>>

ChunkWrite ==
  /\ Len(chunk.lines) < MaxCodeLen
  /\ \E byte \in BuildBytes, line \in BuildLines :
       Built("write_chunk", write_chunk(chunk, byte, line))

ChunkAddConstant ==
  /\ Len(chunk.constants) < 1
  /\ Built("add_constant", add_constant(chunk, number_val(Frac(1, 1))))

ChunkClear == Built("clear", clear(chunk))

ParserEmitByte ==
  /\ Len(chunk.lines) < MaxCodeLen
  /\ \E byte \in BuildBytes, line \in BuildLines :
       Built("emit_byte", emit_byte(ParserOn(chunk, line), byte).chunk)

ParserEmitJump ==
  /\ Len(chunk.lines) + 3 <= MaxCodeLen
  /\ \E line \in BuildLines :
       Built("emit_jump", emit_jump(ParserOn(chunk, line), OpByte("Jump")).chunk)

\* patch_jump of a jump emit_jump has emitted: offset is the index of its operand
ParserPatchJump ==
  \E offset \in 1..(Len(chunk.code) - 2) :
    /\ chunk.code[offset] = OpByte("Jump")
    /\ Built("patch_jump", patch_jump(ParserOn(chunk, 1), offset).chunk)

NextBuild ==
  \/ ChunkWrite
  \/ ChunkAddConstant
  \/ ChunkClear
  \/ ParserEmitByte
  \/ ParserEmitJump
  \/ ParserPatchJump

SpecBuild == Init /\ [][NextBuild]_vars

(***************************************************************************)
(* The scanning of identifiers and keywords: interpret_file on a file that *)
(* ends with one lexeme of identifier characters, at the start of the      *)
(* source or after another token.                                          *)
(***************************************************************************)
Keywords ==
  { "and", "class", "else", "false", "for", "fun", "if", "nil", "or", "print", "return",
    "super", "this", "true", "var", "while" }

\* Lexemes that are no keyword: prefixes of keywords, keywords with a letter
\* more, and words that begin and end as a keyword does
OtherLexemes ==
  { "a", "an", "andy", "almond", "cutlass", "cl", "eelse", "els", "f", "fa", "fals",
    "fo", "four", "floor", "fusion", "fn", "i", "iff", "ifx", "nail", "ni", "odor", "o",
    "pprint", "prints", "rreturn", "ssuper", "t", "th", "thesis", "tr", "tribue", "tx",
    "vicar", "va", "worthwhile", "x", "_if" }

ScanPrefixes == {"", "x ", "1+"}

ScanSources == {pre \o lexeme : pre \in ScanPrefixes, lexeme \in Keywords \cup OtherLexemes}

ScanInterpret == \E src \in ScanSources : InterpretFile(src)

NextScan == ScanInterpret

SpecScan == Init /\ [][NextScan]_vars

(***************************************************************************)
(* The compilation of a long source, one declaration at a time.  An action *)
(* is one turn of a loop that calls declaration (the loop of VM::compile   *)
(* or, after OpenBlock, the loop of Parser::block on the block's           *)
(* declarations); the variable parser is the Parser between two turns, and *)
(* the scanner goes on to the text of the next declaration.  A source is   *)
(* one statement written again and again, statements with a new number     *)
(* each, blocks that declare one local each, or one block that declares    *)
(* local after local, with or without a block inside it first.             *)
(***************************************************************************)
\* Statements that add the same constants each time they are compiled
ConstantStatements == {"1;", "x;", "\"s\";", "x = 1;", "print 1 + 1;"}

\* The statement of a number no earlier statement has: n.5
DistinctStatement(n) == ToString(n) \o ".5;"

LocalName(n) == "v" \o ToString(n)

\* The declaration of the local n: it assigns and reads the local before it
LocalDeclaration(n) ==
  IF n = 0 THEN "var v0 = 1;"
  ELSE "var " \o LocalName(n) \o " = " \o LocalName(n - 1) \o " = " \o LocalName(n - 1) \o ";"

\* A block that declares the local n
ClosedBlock(n) == "{ var " \o LocalName(n) \o " = 1; }"

FirstPieces == ConstantStatements \cup {DistinctStatement(0), ClosedBlock(0)}

\* The texts that may follow the text prev in the source
NextPieces(prev, p) ==
  IF prev \in ConstantStatements THEN {prev}
  ELSE IF prev = "{" THEN {LocalDeclaration(0), ClosedBlock(0)}
  ELSE IF SubSeq(prev, 1, 1) = "v" \/ p.scope_depth > 0 THEN {LocalDeclaration(p.local_count)}
  ELSE IF SubSeq(prev, 1, 1) = "{" THEN {ClosedBlock(p.local_count)}
  ELSE {DistinctStatement(Len(p.chunk.constants))}

\* The parser when its scanner has reached the text piece
AtPiece(p, piece) == advance_token([p EXCEPT !.scanner = BindScanner(piece)])

Compiling(piece, p) ==
  /\ parser' = p
  /\ heap' = p.heap
  /\ last_call' = [op |-> "compile", src |-> piece, pre |-> PreState, tokens |-> <<>>]
  /\ UNCHANGED <<chunk, ip, stack, globals, strings, result, running, out, calls, last_step,
                 written>>

\* A turn of the loop of VM::compile: Parser::declaration on the next declaration
CompileDeclaration ==
  /\ IsOk(parser)
  /\ \E piece \in IF last_call.op = "none" THEN FirstPieces
                   ELSE NextPieces(last_call.src, parser) :
       Compiling(piece, Try(AtPiece(parser, piece), LAMBDA p1 : declaration(p1)))

\* Parser::statement on a left brace, up to the call of block
OpenBlock ==
  /\ last_call.op = "none"
  /\ Compiling("{", Try(match_token(AtPiece(parser, "{"), "LeftBrace"),
                        LAMBDA p1 : begin_scope(p1)))

NextCompile ==
  \/ CompileDeclaration
  \/ OpenBlock

SpecCompile == Init /\ [][NextCompile]_vars

(***************************************************************************)
(* Chunks assembled by hand that interpret_chunk runs on a fresh VM: the   *)
(* chunk of tests/vm_hand_compile.rs with every choice of its numbers and  *)
(* of its two binary opcodes, and chunks in which instructions follow the  *)
(* Return.                                                                 *)
(***************************************************************************)
\* What follows the Return of a chunk that does not end with it
AfterReturn(c, b) ==
  { WithOp(WithConstant(c, b), "Print"), WithOp(WithOp(c, "Negate"), "Print"),
    WithOp(WithConstant(c, b), "Add"), WithOp(c, "Pop") }

ReturnChunks ==
  UNION { AfterReturn(WithOp(WithConstant(EmptyChunk, a), "Return"), b) :
            a \in Operands, b \in Operands }

DemoNumbers ==
  { number_val(Frac(0, 1)), number_val(Frac(1, 1)), number_val(Frac(-2, 1)),
    number_val(Frac(1, 2)) }

DemoOperators == {"Add", "Subtract", "Multiply", "Divide"}

\* The chunk of manual_demo: a b op1 c op2 Negate Return
DemoChunk(a, op1, b, op2, c) ==
  WithOp(WithOp(WithOp(WithConstant(WithOp(WithConstant(WithConstant(EmptyChunk, a), b), op1),
                                    c),
                       op2),
                "Negate"),
         "Return")

\* manual_demo: 1.2 2.3 Add 5.6 Divide Negate Return
ManualDemo ==
  DemoChunk(number_val(Frac(12, 10)), "Add", number_val(Frac(23, 10)), "Divide",
            number_val(Frac(56, 10)))

DemoChunks ==
  { DemoChunk(a, op1, b, op2, c) :
      a \in DemoNumbers, op1 \in DemoOperators, b \in DemoNumbers, op2 \in DemoOperators,
      c \in DemoNumbers }
  \cup {ManualDemo}

\* The one call of a behaviour
DemoInterpret == calls = 0 /\ \E c \in ReturnChunks \cup DemoChunks : InterpretChunk(c)

NextDemo ==
  \/ DemoInterpret
  \/ Step

SpecDemo == Init /\ [][NextDemo]_vars

(***************************************************************************)
(* Parser::synchronize on its own: an error has been reported with k       *)
(* tokens of a source behind the parser, and synchronize is called as      *)
(* Parser::declaration calls it when panic_mode is set.                    *)
(***************************************************************************)
MaxTokens == 8

\* Sources without and with characters that start no token and strings that
\* have no closing quote
SyncSources ==
  { "1 + 2; print 3;", "1 2 3 print 4;", "a b c; var d;", "( ( ) var x;", "x y z",
    "a b class C", "1 ; 2 ; 3", "a b if (c) d;", "a b } while", "a = = fun f",
    "a b c d e for", "a b c d e f g h return;",
    "a b @ c; var d;", "a @ ; print 1;", "a \"abc", "a b @ @ print 1;", "a @",
    "a b c d @ ; print 1;", "a b ; @ print 1;", "a b c \"d; var e",
    "1 + 2 * 3 - 4 / 5 print 6;", "a . b , c ; d", "! - ( 1 ) ; if", "x = y = z var w;",
    "{ a b } { c", "a < b <= c > d >= e;", "a b c d e f @ g;", "\"s\" \"t\" \"u",
    "nil true false @ print" }

\* The parser after k calls of advance_token
RECURSIVE Advanced(_, _)
Advanced(p, k) ==
  IF k = 0 THEN p ELSE Try(advance_token(p), LAMBDA p1 : Advanced(p1, k - 1))

\* Parser::error_at has reported an error; its Err is not in res, which is what
\* the calls of synchronize return
Reported(p) == [p EXCEPT !.panic_mode = TRUE, !.had_error = TRUE]

Called(op, src, p) ==
  /\ parser' = p
  /\ last_call' = [op |-> op, src |-> src, pre |-> PreState, tokens |-> <<>>]
  /\ UNCHANGED <<chunk, ip, stack, globals, strings, heap, result, running, out, calls,
                 last_step, written>>

\* An error is reported with the k-th token of a source as the current one
ErrorReported ==
  /\ last_call.op = "none"
  /\ \E src \in SyncSources, k \in 1..MaxTokens :
       /\ IsOk(Advanced(InitParser(src, 0), k))
       /\ Advanced(InitParser(src, 0), k).current.token_type # "Eof"
       /\ Called("error", src, Reported(Advanced(InitParser(src, 0), k)))

\* Parser::synchronize
Synchronize ==
  /\ last_call.op = "error"
  /\ Called("synchronize", last_call.src, synchronize(parser))

NextSync ==
  \/ ErrorReported
  \/ Synchronize

SpecSync == Init /\ [][NextSync]_vars

(***************************************************************************)
(* The loop of VM::run on compiled if statements: the sources of IfSources *)
(* and sources if (c) { nil; ... nil; } whose block is long enough for the *)
(* operand of the JumpIfFalse to pass 32767.  The chunk of such a source   *)
(* has up to 65538 bytes; a behaviour keeps one copy of it, in             *)
(* parser.chunk where the compiler has built it, and the steps of the run  *)
(* read it there: the variable chunk stays as rebind has left it.          *)
(***************************************************************************)
\* The steps of a run that are taken: a run that never ends is cut here.
MaxSteps == 16

\* The numbers of statements of the long blocks: the operand of the
\* JumpIfFalse is twice the number plus 4.
ThenStatements == {0, 1, 2, 16381, 16382, 32764, 32765, 32766}

\* The bytes of n statements nil; : Nil and Pop for each
NilStatements(n) == [i \in 1..(2 * n) |-> IF i % 2 = 1 THEN OpByte("Nil") ELSE OpByte("Pop")]

\* The parser after the n statements nil; of a block, all on the line of the
\* previous token
ThenBranch(p, n) ==
  [p EXCEPT !.chunk.code = @ \o NilStatements(n),
            !.chunk.lines = @ \o [i \in 1..(2 * n) |-> p.previous.line]]

\* Parser::if_statement up to emit_jump, the condition being the literal cond
AfterCondition(cond) ==
  emit_jump(emit_byte(advance_token(InitParser("", 0)), OpByte(cond)), OpByte("JumpIfFalse"))

\* VM::compile of if (cond) { nil; ... nil; } with n statements in the block:
\* the condition, the JumpIfFalse, the Pop, the block, then what if_statement
\* does after the then branch, and end_compiler
IfCompiled(cond, n) ==
  Try(else_branch(ThenBranch(emit_byte(AfterCondition(cond), OpByte("Pop")), n),
                  AfterCondition(cond).ret),
      LAMBDA p : end_compiler(p))

\* The name such a source goes by in last_call
LongSource(cond, n) == "if (" \o cond \o ") { nil; (" \o ToString(n) \o " times) }"

\* The VM of a run on the chunk the compiler has built
LoopMachine == [Machine EXCEPT !.chunk = parser.chunk]

\* VM::interpret up to the loop of VM::run, p being the parser VM::compile ends
\* with
LoopInterpret(src, p) ==
  /\ Idle
  /\ chunk' = EmptyChunk
  /\ ip' = 0
  /\ heap' = p.heap
  /\ running' = (IsOk(p) /\ 0 < Len(p.chunk.code))
  /\ result' = IF IsOk(p) THEN [kind |-> "Ok", msg |-> ""] ELSE p.res
  /\ parser' = p
  /\ out' = <<>>
  /\ calls' = calls + 1
  /\ last_call' = [op |-> "interpret", src |-> src, pre |-> PreState, tokens |-> <<>>]
  /\ last_step' = NoStep
  /\ UNCHANGED <<stack, globals, strings, written>>

\* The one call of a behaviour, on a source of IfSources
ShortInterpret == calls = 0 /\ \E src \in IfSources : LoopInterpret(src, compile(src, heap))

\* The one call of a behaviour, on a source with a long block
LongInterpret ==
  /\ calls = 0
  /\ \E cond \in {"True", "False"}, n \in ThenStatements :
       LoopInterpret(LongSource(cond, n), IfCompiled(cond, n))

\* One turn of the loop of VM::run
LoopStep ==
  /\ running
  /\ Len(last_step.ops) < MaxSteps
  /\ ip' = run_one_step(LoopMachine).m.ip
  /\ stack' = run_one_step(LoopMachine).m.stack
  /\ globals' = run_one_step(LoopMachine).m.globals
  /\ out' = run_one_step(LoopMachine).m.out
  /\ result' = [kind |-> run_one_step(LoopMachine).kind, msg |-> run_one_step(LoopMachine).msg]
  /\ running' = RunContinues(run_one_step(LoopMachine).m, run_one_step(LoopMachine).kind)
  /\ last_step' = [ops |-> Append(last_step.ops, OpFromByte(parser.chunk.code[ip + 1])),
                   op |-> OpFromByte(parser.chunk.code[ip + 1]),
                   arg |-> GlobalName(LoopMachine),
                   pre |-> [ip |-> ip, stack |-> stack, globals |-> globals],
                   kind |-> run_one_step(LoopMachine).kind,
                   msg |-> run_one_step(LoopMachine).msg]
  /\ UNCHANGED <<chunk, strings, heap, calls, last_call, written, parser>>

NextLoop ==
  \/ ShortInterpret
  \/ LongInterpret
  \/ LoopStep

SpecLoop == Init /\ [][NextLoop]_vars

(***************************************************************************)
(* Properties.                                                             *)
(***************************************************************************)
Num(n) == number_val(Frac(n, 1))

\* The last call was interpret(src) and its run has ended without an error.
Finished(src) ==
  last_call.op = "interpret" /\ last_call.src = src /\ ~running /\ result.kind = "Ok"

Count(seq, x) == Cardinality({i \in 1..Len(seq) : seq[i] = x})

ShadowProgram == "{ var a = 1; { var a = 2; print a; } print a; }"

\* C1: when several live locals have the referenced name the identifier resolves
\* to the one declared last (the innermost), so that the program
\* { var a = 1; { var a = 2; print a; } print a; } prints 2 and then 1.
C1_InnermostLocalWins == Finished(ShadowProgram) => out = <<Num(2), Num(1)>>

\* The run of the shadowing program has ended.
C1_ShadowProgramRan == Finished(ShadowProgram) /\ Len(out) = 2

\* The conditions that are truthy: every value but nil and false.
TruthyConditions == {"true", "0", "1 < 2"}

OperandCount(src) == (Len(src) - 3) \div 6

ShapeOfSource(src) ==
  [unary |-> [i \in 1..OperandCount(src) |-> SubSeq(src, 6 * i + 1, 6 * i + 1)],
   binary |-> [i \in 1..(OperandCount(src) - 1) |-> SubSeq(src, 6 * i + 4, 6 * i + 5)]]

\* The level of a binary operator, from the loosest: equality, comparison, term,
\* factor.
Level(op) ==
  IF op \in {"==", "!="} THEN 1
  ELSE IF op \in {"< ", "<=", "> ", ">="} THEN 2
  ELSE IF op \in {"+ ", "- "} THEN 3
  ELSE 4

OperatorCode(op) ==
  IF op = "==" THEN "Equal" ELSE IF op = "!=" THEN "NotEqual"
  ELSE IF op = "< " THEN "Less" ELSE IF op = "<=" THEN "LessEqual"
  ELSE IF op = "> " THEN "Greater" ELSE IF op = ">=" THEN "GreaterEqual"
  ELSE IF op = "+ " THEN "Add" ELSE IF op = "- " THEN "Subtract"
  ELSE IF op = "* " THEN "Multiply" ELSE "Divide"

\* Operand i in postfix form: its constant, then its unary operator.
OperandPostfix(e, i) ==
  <<OpByte("Constant"), i - 1>> \o
  (IF e.unary[i] = "-" THEN <<OpByte("Negate")>>
   ELSE IF e.unary[i] = "!" THEN <<OpByte("Not")>>
   ELSE <<>>)

\* The postfix form of the operands lo..hi of e: the expression is split at its
\* loosest operator, at the last of them when several are of that level.
RECURSIVE Postfix(_, _, _)
Postfix(e, lo, hi) ==
  IF lo = hi THEN OperandPostfix(e, lo)
  ELSE LET at == CHOOSE i \in lo..(hi - 1) :
                   \A j \in lo..(hi - 1) :
                     \/ Level(e.binary[j]) > Level(e.binary[i])
                     \/ Level(e.binary[j]) = Level(e.binary[i]) /\ j <= i
       IN  Postfix(e, lo, at) \o Postfix(e, at + 1, hi)
             \o <<OpByte(OperatorCode(e.binary[at]))>>

PostfixCode(e) == Postfix(e, 1, Len(e.unary)) \o <<OpByte("Print"), OpByte("Return")>>

\* C3: the bytecode emitted for an expression of operands and binary operators
\* is the postfix form of the parse in which an operator of a higher level binds
\* tighter, operators of one level associate to the left, and a unary minus or !
\* binds tighter than every binary operator.
C3_PostfixOfPrecedenceParse ==
  last_call.op = "interpret" =>
    /\ result.kind # "CompileError"
    /\ chunk.code = PostfixCode(ShapeOfSource(last_call.src))

\* 1 - 2 - 3 has been compiled to 1 2 Subtract 3 Subtract and has printed -4.
C3_LeftAssociativeRan ==
  /\ Finished("print  1 -   2 -   3;")
  /\ out = <<Num(-4)>>

\* C4: interpret_file on a readable file returns what interpret returns on the
\* file's content and leaves the chunk, the stack and the globals as interpret
\* leaves them.
C4_FileAsInterpret ==
  (last_call.op = "interpret_file" /\ last_call.tokens # <<>>) =>
    LET as_source == interpret(last_call.src, last_call.pre)
    IN  /\ result = as_source.result
        /\ chunk = as_source.chunk
        /\ stack = as_source.stack
        /\ globals = as_source.globals

\* interpret_file has returned on a file that holds a program.
C4_FileInterpreted ==
  /\ last_call.op = "interpret_file"
  /\ last_call.src = "var x = 1; print x;"
  /\ Len(last_call.tokens) > 1

\* C5: when interpret returns a CompileError the chunk, ip, stack, globals and
\* strings of the VM are what they were before the call.
C5_CompileErrorLeavesVM ==
  (last_call.op = "interpret" /\ result.kind = "CompileError") =>
    /\ chunk = last_call.pre.chunk
    /\ ip = last_call.pre.ip
    /\ stack = last_call.pre.stack
    /\ globals = last_call.pre.globals
    /\ strings = last_call.pre.strings

\* interpret has returned a CompileError on a VM that held a chunk it had run.
C5_CompileErrorAfterRun ==
  /\ last_call.op = "interpret"
  /\ result.kind = "CompileError"
  /\ Len(last_call.pre.chunk.code) > 1
  /\ last_call.pre.ip > 0

\* C6: when run returns a RuntimeError the stack is empty, the faulting
\* instruction is the last one executed (the loop has stopped), and the globals
\* are those the instructions before it left: the faulting instruction adds or
\* changes no binding.
C6_RuntimeErrorState ==
  (last_call.op = "interpret" /\ result.kind = "RuntimeError") =>
    /\ stack = <<>>
    /\ ~running
    /\ last_step.kind = "RuntimeError"
    /\ globals = last_step.pre.globals

\* A SetGlobal of an unbound name has failed on a stack that held values, with
\* other names bound.
C6_FaultWithValuesAndBindings ==
  /\ last_call.op = "interpret"
  /\ result.kind = "RuntimeError"
  /\ last_step.op = "SetGlobal"
  /\ last_step.pre.stack # <<>>
  /\ DOMAIN globals # {}

\* C7: a read of a global yields the value of the last DefineGlobal or successful
\* SetGlobal of the name and pushes it; DefineGlobal of a bound name overwrites
\* it without error; the read of a name never defined is a RuntimeError that
\* pushes nothing.
C7_GlobalReadsLastWrite ==
  /\ last_step.op = "GetGlobal" =>
       IF last_step.arg \in DOMAIN written
       THEN /\ last_step.kind = "Ok"
            /\ stack = Append(last_step.pre.stack, written[last_step.arg])
       ELSE /\ last_step.kind = "RuntimeError"
            /\ stack = <<>>
  /\ last_step.op = "DefineGlobal" =>
       /\ last_step.kind = "Ok"
       /\ stack = PopN(last_step.pre.stack, 1)

\* x, defined as 1 by an earlier call, has been defined again as 2 and assigned
\* 5, and the read of x has pushed 5.
C7_ReadAfterRedefinition ==
  /\ last_call.src = "var x = 2; x = x + 3; print x;"
  /\ "x" \in DOMAIN last_call.pre.globals
  /\ last_call.pre.globals["x"] = Num(1)
  /\ last_step.op = "GetGlobal"
  /\ stack # <<>>
  /\ Top(stack) = Num(5)

\* C8: SetGlobal of a name with no binding returns a RuntimeError and leaves no
\* binding for the name; of a bound name it overwrites the binding with the top
\* of the stack and does not pop it.
C8_SetGlobal ==
  last_step.op = "SetGlobal" =>
    IF last_step.arg \in DOMAIN last_step.pre.globals
    THEN /\ last_step.kind = "Ok"
         /\ stack = last_step.pre.stack
         /\ DOMAIN globals = DOMAIN last_step.pre.globals
         /\ globals[last_step.arg] = Top(last_step.pre.stack)
         /\ \A n \in DOMAIN globals \ {last_step.arg} : globals[n] = last_step.pre.globals[n]
    ELSE /\ last_step.kind = "RuntimeError"
         /\ last_step.arg \notin DOMAIN globals
         /\ globals = last_step.pre.globals

\* A SetGlobal has given a bound name another value.
C8_BoundNameOverwritten ==
  /\ last_step.op = "SetGlobal"
  /\ last_step.kind = "Ok"
  /\ globals[last_step.arg] # last_step.pre.globals[last_step.arg]

EndsWith(text, tail) ==
  Len(text) >= Len(tail) /\ SubSeq(text, Len(text) - Len(tail) + 1, Len(text)) = tail

ArithmeticOps == {"Add", "Subtract", "Multiply", "Divide"}

ComparisonOps == {"Greater", "Less", "GreaterEqual", "LessEqual"}

BothNumbers(st) == st[Len(st) - 1].t = "Number" /\ st[Len(st)].t = "Number"

\* C9: Add, Subtract, Multiply and Divide of two numbers pop both and push one
\* number; with an operand that is no number they return the RuntimeError
\* "Operands must be numbers.", and Negate of a value that is no number returns
\* "Operand must be a number."; neither pushes a result.
C9_ArithmeticTypeErrors ==
  /\ (last_step.op \in ArithmeticOps /\ Len(last_step.pre.stack) >= 2) =>
       IF BothNumbers(last_step.pre.stack)
       THEN /\ last_step.kind = "Ok"
            /\ Len(stack) = Len(last_step.pre.stack) - 1
            /\ PopN(stack, 1) = PopN(last_step.pre.stack, 2)
            /\ Top(stack).t = "Number"
       ELSE /\ last_step.kind = "RuntimeError"
            /\ EndsWith(last_step.msg, ": Operands must be numbers.")
            /\ stack = <<>>
  /\ (last_step.op = "Negate" /\ Len(last_step.pre.stack) >= 1
      /\ Top(last_step.pre.stack).t # "Number") =>
       /\ last_step.kind = "RuntimeError"
       /\ EndsWith(last_step.msg, ": Operand must be a number.")
       /\ stack = <<>>

\* A Multiply of a boolean and a number has failed above another value.
C9_MultiplyOfBooleanFailed ==
  /\ last_step.op = "Multiply"
  /\ Len(last_step.pre.stack) = 3
  /\ last_step.pre.stack[2].t = "Bool"
  /\ last_step.pre.stack[3].t = "Number"
  /\ last_step.kind = "RuntimeError"

\* C10: Greater, Less, GreaterEqual and LessEqual with an operand that is no
\* number return a RuntimeError and push no boolean.
C10_ComparisonNeedsNumbers ==
  (last_step.op \in ComparisonOps /\ Len(last_step.pre.stack) >= 2
   /\ ~BothNumbers(last_step.pre.stack)) =>
    /\ last_step.kind = "RuntimeError"
    /\ stack = <<>>

\* A comparison of two booleans has been executed.
C10_BooleansCompared ==
  /\ last_step.op = "Greater"
  /\ Len(last_step.pre.stack) = 2
  /\ last_step.pre.stack[1].t = "Bool"
  /\ last_step.pre.stack[2].t = "Bool"

\* C11: Not of any value v (nil, a boolean, a number or a string) pops v and
\* pushes true when v is nil or false and false otherwise, and never fails: !0
\* is false.
C11_NotOfAnyValue ==
  (last_step.op = "Not" /\ Len(last_step.pre.stack) >= 1) =>
    /\ last_step.kind = "Ok"
    /\ stack = Append(PopN(last_step.pre.stack, 1),
                      bool_val(is_falsey(Top(last_step.pre.stack))))

\* Not has been executed on the number 0, above another value.
C11_NotOfZero ==
  /\ last_step.op = "Not"
  /\ Len(last_step.pre.stack) = 2
  /\ Top(last_step.pre.stack) = Num(0)

SameText(v, w) == v.t = "Obj" /\ w.t = "Obj" /\ v.data = w.data

\* C12: two string constants the compiler creates from equal bytes (string
\* literals or identifier names) are the same heap object, and Equal on two
\* such values yields true: print "hi" == "hi"; prints true.
C12_EqualStringsSameObject ==
  /\ last_call.op = "interpret" =>
       \A i, j \in DOMAIN chunk.constants :
         SameText(chunk.constants[i], chunk.constants[j]) =>
           chunk.constants[i].ptr = chunk.constants[j].ptr
  /\ (last_step.op = "Equal" /\ Len(last_step.pre.stack) >= 2
      /\ SameText(Top(last_step.pre.stack), Top(PopN(last_step.pre.stack, 1)))) =>
       /\ last_step.kind = "Ok"
       /\ stack = Append(PopN(last_step.pre.stack, 2), bool_val(TRUE))
  /\ (Finished(StringProgram) \/ (last_call.src = StringProgram /\ result.kind # "Ok")) =>
       /\ result.kind = "Ok"
       /\ out = <<bool_val(TRUE)>>

\* Equal has been executed on the values of the two literals "hi".
C12_EqualOnTwoLiterals ==
  /\ last_call.src = StringProgram
  /\ last_step.op = "Equal"
  /\ Len(last_step.pre.stack) = 2
  /\ SameText(last_step.pre.stack[1], last_step.pre.stack[2])
  /\ last_step.pre.stack[1].data = "hi"

\* The operand of the jump instruction the last step has executed: the two
\* bytes after the opcode, big-endian, as an unsigned number.
LastJumpOperand ==
  chunk.code[last_step.pre.ip + 2] * 256 + chunk.code[last_step.pre.ip + 3]

\* The last step was a Jump, or a JumpIfFalse on a falsey top of the stack.
JumpTaken ==
  /\ last_step.kind = "Ok"
  /\ \/ last_step.op = "Jump"
     \/ /\ last_step.op = "JumpIfFalse"
        /\ is_falsey(Top(last_step.pre.stack))

\* C13: for every operand d in 0..65535 that patch_jump can write, a Jump, or a
\* JumpIfFalse on a falsey top of the stack, sets ip to the index of the byte
\* after the operand plus d, and never moves ip backward.
C13_JumpAddsOperand ==
  JumpTaken =>
    /\ ip = last_step.pre.ip + 3 + LastJumpOperand
    /\ ip >= last_step.pre.ip + 3

\* A Jump has been executed whose operand is the one patch_jump writes for a
\* jump over 32768 bytes.
C13_JumpOver32768 ==
  /\ last_step.op = "Jump"
  /\ last_step.kind = "Ok"
  /\ LastJumpOperand = 32768
  /\ IsOk(Patched(32771))
  /\ PatchedOperand(32771) = <<128, 0>>

BlockWithLocals == "{ var a = 1; var b = 2; print a + b; }"

\* C14: the run of the bytecode of well-formed statements (print, expression
\* statement, global var declaration, if statement, block with the locals it
\* declares) that ends without a runtime error leaves the stack as high as it
\* was before.
C14_StatementsLeaveStack ==
  (last_call.op = "interpret" /\ ~running /\ result.kind = "Ok") =>
    Len(stack) = Len(last_call.pre.stack)

\* The run of a block that declares two locals and prints their sum has ended.
C14_BlockWithLocalsRan ==
  /\ Finished(BlockWithLocals)
  /\ out = <<Num(3)>>
  /\ Count(last_step.ops, "GetLocal") = 2

\* C15: after any sequence of write_chunk, add_constant and clear and of the
\* parser's emissions and jump patches the code and the lines of the chunk
\* have the same length: lines[i] is the line of code[i].
C15_CodeAndLinesSameLength == Len(chunk.code) = Len(chunk.lines)

\* A chunk that held a constant and a patched jump has been cleared.
C15_ClearedAfterWrites ==
  /\ last_call.op = "clear"
  /\ Len(last_call.pre.chunk.constants) = 1
  /\ Len(last_call.pre.chunk.code) = 3
  /\ last_call.pre.chunk.code[1] = OpByte("Jump")
  /\ last_call.pre.chunk.code[3] = 0

\* The token type of each keyword
KeywordType(lexeme) ==
  CASE lexeme = "and" -> "And"
    [] lexeme = "class" -> "Class"
    [] lexeme = "else" -> "Else"
    [] lexeme = "false" -> "False"
    [] lexeme = "for" -> "For"
    [] lexeme = "fun" -> "Fun"
    [] lexeme = "if" -> "If"
    [] lexeme = "nil" -> "Nil"
    [] lexeme = "or" -> "Or"
    [] lexeme = "print" -> "Print"
    [] lexeme = "return" -> "Return"
    [] lexeme = "super" -> "Super"
    [] lexeme = "this" -> "This"
    [] lexeme = "true" -> "True"
    [] lexeme = "var" -> "Var"
    [] lexeme = "while" -> "While"
    [] OTHER -> "Identifier"

\* The token scanned last before Eof by the last call of interpret_file
LastToken == last_call.tokens[Len(last_call.tokens) - 1]

\* C16: scan_token gives a lexeme of identifier characters a keyword's token
\* type if and only if the whole lexeme is one of the 16 keywords; every other
\* such lexeme, one that begins and ends as a keyword does included, is an
\* Identifier.
C16_KeywordIffWholeLexeme ==
  (last_call.op = "interpret_file" /\ Len(last_call.tokens) >= 2) =>
    /\ LastToken.lexeme \in Keywords \cup OtherLexemes
    /\ EndsWith(last_call.src, LastToken.lexeme)
    /\ LastToken.token_type = KeywordType(LastToken.lexeme)

\* The lexeme four, which begins with fo and ends with r, has been scanned
\* after another token.
C16_FourScanned ==
  /\ last_call.op = "interpret_file"
  /\ last_call.src = "x four"
  /\ Len(last_call.tokens) = 3
  /\ LastToken.lexeme = "four"

HasQuote(src) == \E i \in 1..Len(src) : SubSeq(src, i, i) = "\""

\* The message of the Error token the scanner gives for the source
ScannerMessage(src) ==
  IF HasQuote(src) THEN "Unterminated string." ELSE "Unexpected character."

\* C17: wherever an Error token occurs in the token stream, directly after a
\* token consumed by match_token included (print "abc), the compilation returns
\* a CompileError that carries the scanner's message, and never aborts.
C17_ErrorTokenIsCompileError ==
  (last_call.op = "interpret" /\ last_call.src \in ErrorTokenSources) =>
    /\ result.kind = "CompileError"
    /\ EndsWith(result.msg, "Error: " \o ScannerMessage(last_call.src))

\* interpret has been called on print "abc, where the unterminated string
\* follows the print token that match_token consumes.
C17_ErrorAfterMatchedToken ==
  /\ last_call.op = "interpret"
  /\ last_call.src = "print \"abc"
  /\ ~running
  /\ result.kind # "Ok"

\* Parser::declaration applied to the first declaration of a source
FirstDeclaration(src) == declaration(advance_token(InitParser(src, 0)))

\* The parser is where synchronize stops: after a semicolon, or before a token
\* that begins a statement, or at the end.
AtStatementBoundary(p) ==
  \/ p.previous.token_type = "Semicolon"
  \/ p.current.token_type \in SyncTokens \cup {"Eof"}

\* C18: after the first error inside a declaration, declaration() reaches its
\* panic_mode check and returns normally: the error is recorded, synchronize
\* has cleared panic_mode and the parser is at the next statement boundary,
\* from where a later declaration is compiled.
C18_SynchronizeAfterError ==
  (last_call.op = "interpret" /\ last_call.src \in ErrorSources) =>
    /\ FirstDeclaration(last_call.src).had_error
    /\ IsOk(FirstDeclaration(last_call.src))
    /\ ~FirstDeclaration(last_call.src).panic_mode
    /\ AtStatementBoundary(FirstDeclaration(last_call.src))

\* A source whose two declarations both have an error has been compiled.
C18_TwoErroneousDeclarations ==
  /\ last_call.op = "interpret"
  /\ last_call.src = "var = 1; print 2;"
  /\ result.kind = "CompileError"
  /\ FirstDeclaration(last_call.src).had_error

StartsWith(text, head) == Len(text) >= Len(head) /\ SubSeq(text, 1, Len(head)) = head

\* The lines of the sources compiled
SourceLines == {1, 2}

\* [line L] Error at <where>: <what>, where <where> is end, or nothing, or a
\* quoted lexeme
HasErrorForm(msg) ==
  \E line \in SourceLines :
    \E where \in {" at end: ", ": ", " at '"} :
      StartsWith(msg, "[line " \o ToString(line) \o "] Error" \o where)

\* C19: whenever the compilation yields a CompileError, had_error is true and
\* the message has the form [line L] Error at <where>: <what>, for every kind
\* of compile error.
C19_CompileErrorForm ==
  (last_call.op = "interpret" /\ result.kind = "CompileError") =>
    /\ compile(last_call.src, last_call.pre.heap).had_error
    /\ HasErrorForm(result.msg)

\* The compilation of a block that declares a local twice has returned a
\* CompileError.
C19_LocalDeclaredTwice ==
  /\ last_call.op = "interpret"
  /\ last_call.src = "{ var a = 1; var a = 2; }"
  /\ result.kind = "CompileError"
  /\ EndsWith(result.msg, "Already a variable with this name in this scope.")

\* The '=' of the source that are no part of a var declaration (the names of
\* the variables are one letter long)
AssignmentSigns(src) ==
  { i \in 1..Len(src) :
      /\ SubSeq(src, i, i) = "="
      /\ ~(i >= 7 /\ SubSeq(src, i - 6, i - 3) = "var ") }

SetOps(code) ==
  { i \in 1..Len(disassemble(code, 0)) : disassemble(code, 0)[i] \in {"SetLocal", "SetGlobal"} }

\* C20: an '=' is consumed as an assignment only when the variable on its left
\* is parsed at precedence Assignment or lower: every '=' of a source of
\* assignments emits one SetLocal or SetGlobal, and a source with an '=' after
\* an operand of a binary or unary operator (a + b = c; -a = 1;) yields the
\* CompileError Invalid assignment target. and emits no SetLocal or SetGlobal.
C20_AssignmentOnlyAtAssignmentLevel ==
  /\ (last_call.op = "interpret" /\ last_call.src \in InvalidTargetSources) =>
       /\ result.kind = "CompileError"
       /\ EndsWith(result.msg, "Invalid assignment target.")
       /\ SetOps(compile(last_call.src, last_call.pre.heap).chunk.code) = {}
  /\ (last_call.op = "interpret" /\ last_call.src \in AssignmentSources) =>
       /\ result.kind # "CompileError"
       /\ Cardinality(SetOps(chunk.code)) = Cardinality(AssignmentSigns(last_call.src))

\* a + b = c; has been compiled: the two reads and the Add were emitted before
\* the error.
C20_InvalidTargetCompiled ==
  /\ last_call.op = "interpret"
  /\ last_call.src = "a + b = c;"
  /\ result.kind = "CompileError"
  /\ Len(compile(last_call.src, last_call.pre.heap).chunk.code) = 5

OwnInitializerMessage == "Can't read local variable in its own initializer."

\* C21: in a block, a declaration var a = e; whose initializer e reads a is the
\* CompileError "Can't read local variable in its own initializer.", also when
\* an enclosing scope holds an initialized local named a.
C21_OwnInitializerIsError ==
  \A src \in OwnInitializerSources :
    (last_call.op = "interpret" /\ last_call.src = src)
      => /\ result.kind = "CompileError"
         /\ EndsWith(result.msg, OwnInitializerMessage)

\* { var a = 1; { var a = a; } } has been compiled without an error and run: the
\* inner a was initialized from the outer one.
C21_InitializerReadOuterLocal ==
  /\ last_call.op = "interpret"
  /\ last_call.src = "{ var a = 1; { var a = a; } }"
  /\ ~running
  /\ result.kind = "Ok"
  /\ stack = <<Num(1), Num(1)>>

AlreadyDeclaredMessage == "Already a variable with this name in this scope."

\* interpret(src) was called and ended with the CompileError of the message
CompileErrorOf(src, message) ==
  /\ last_call.op = "interpret"
  /\ last_call.src = src
  /\ result.kind = "CompileError"
  /\ EndsWith(result.msg, message)

\* C22: declare_variable returns the CompileError "Already a variable with this
\* name in this scope." exactly when a live local of the current scope has the
\* name: a local of that name in an enclosing scope, or in a block that has
\* been closed, gives no error.
C22_AlreadyDeclaredOnlyInSameScope ==
  /\ \A src \in SameScopeSources :
       (last_call.op = "interpret" /\ last_call.src = src)
         => CompileErrorOf(src, AlreadyDeclaredMessage)
  /\ \A src \in OtherScopeSources : ~CompileErrorOf(src, AlreadyDeclaredMessage)

\* A name declared in a block that was closed before the block that declares it
\* again was opened has been refused.
C22_ClosedBlockLocalRefused ==
  CompileErrorOf("{ { var a = 1; } { var a = 2; } }", AlreadyDeclaredMessage)

TooManyConstants(p) ==
  p.res.kind = "CompileError" /\ EndsWith(p.res.msg, "Too many constants in one chunk.")

\* The number of distinct values in the pool: two strings of the same text are
\* one value
DistinctConstants(c) ==
  Cardinality({[c.constants[i] EXCEPT !.ptr = 0] : i \in 1..Len(c.constants)})

\* C23 as amended: the compilation ends with the CompileError "Too many
\* constants in one chunk." exactly when a 257th constant has been added to
\* the chunk (its index, 256, is no u8); every literal and every global name
\* compiled adds a constant, whether or not an equal one is in the pool.
C23_ErrorAtThe257thConstant ==
  /\ TooManyConstants(parser) <=> Len(parser.chunk.constants) > U8_MAX + 1
  /\ Len(parser.chunk.constants) <= U8_MAX + 2

\* The statement 1; compiled 257 times: the pool holds one distinct value and
\* the error has been returned.
C23_RepeatedLiteralRefused ==
  /\ last_call.op = "compile"
  /\ last_call.src = "1;"
  /\ TooManyConstants(parser)
  /\ DistinctConstants(parser.chunk) = 1
  /\ Len(parser.chunk.constants) = U8_MAX + 2

\* C23 as claimed: the error is returned exactly when the 256th distinct
\* constant is added, and never while the constants take fewer distinct
\* values.
C23_ErrorAtThe256thDistinctConstant ==
  TooManyConstants(parser) <=> DistinctConstants(parser.chunk) >= U8_MAX + 1

TooManyLocals(p) ==
  p.res.kind = "CompileError" /\ StartsWith(p.res.msg, "Too many local variables")

\* The locals of p whose scope is open: the number of live locals
LiveLocals(p) ==
  Cardinality({i \in 1..p.local_count : p.locals[i].depth <= p.scope_depth})

\* The bytes the last turn has added to the code of p, the parser before it
Appended(p, q) == SubSeq(q.chunk.code, Len(p.chunk.code) + 1, Len(q.chunk.code))

\* The operands of the GetLocal and of the SetLocal in the bytes the declaration
\* of the local n has emitted are the index of the local its text names.
LocalOperandsOf(bytes, src, n) ==
  (n >= 1 /\ src = LocalDeclaration(n))
    => bytes = <<OpByte("GetLocal"), n - 1, OpByte("SetLocal"), n - 1>>

\* C24: add_local accepts a declaration while fewer than 256 locals are live
\* and returns the CompileError when 256 are live, so that local_count never
\* exceeds 256 and the operand byte of every GetLocal and SetLocal is the index
\* of the local, not its low 8 bits.
C24_LocalsUpTo256 ==
  [][ /\ TooManyLocals(parser')
           <=> /\ last_call'.src \in {LocalDeclaration(parser.local_count),
                                      ClosedBlock(parser.local_count)}
               /\ LiveLocals(parser) >= U8_MAX + 1
      /\ parser'.local_count <= U8_MAX + 1
      /\ IsOk(parser')
           => LocalOperandsOf(Appended(parser, parser'), last_call'.src, parser.local_count)
    ]_vars

\* A block has been closed inside the open block and local after local has
\* been declared after it: the declaration of v256 has been refused with 255
\* locals live.
C24_Local256RefusedAfterBlock ==
  /\ last_call.op = "compile"
  /\ last_call.src = LocalDeclaration(U8_MAX + 1)
  /\ TooManyLocals(parser)
  /\ parser.locals[1].depth = 2
  /\ LiveLocals(parser) = U8_MAX

\* C25: once a Return is executed the run is over and has succeeded: the
\* Return is the last instruction executed, whatever follows it in the chunk
\* (also in a chunk given to interpret_chunk in which Return is not the last
\* byte).
C25_ReturnEndsRun ==
  \A i \in 1..Len(last_step.ops) :
    last_step.ops[i] = "Return"
      => i = Len(last_step.ops) /\ ~running /\ result.kind = "Ok"

\* The run of a chunk Constant, Return, Constant, Print has ended: the Print
\* after the Return has printed.
C25_PrintedAfterReturn ==
  /\ last_call.op = "interpret_chunk"
  /\ ~running
  /\ last_step.ops = <<"Constant", "Return", "Constant", "Print">>
  /\ Len(out) = 1

\* The chunk is one of manual_demo's form: three numbers, two arithmetic opcodes
IsDemoChunk(c) ==
  /\ Len(c.constants) = 3
  /\ Len(c.code) = 10
  /\ \A i \in 1..3 : is_number(c.constants[i])
  /\ {OpFromByte(c.code[5]), OpFromByte(c.code[8])} \subseteq DemoOperators
  /\ c = DemoChunk(c.constants[1], OpFromByte(c.code[5]), c.constants[2],
                   OpFromByte(c.code[8]), c.constants[3])

\* The instructions of a chunk of manual_demo's form, in order
DemoOps(c) ==
  <<"Constant", "Constant", OpFromByte(c.code[5]), "Constant", OpFromByte(c.code[8]),
    "Negate", "Return">>

\* -((a op1 b) op2 c)
DemoValue(c) ==
  number_val(F64Neg(ArithF64(OpFromByte(c.code[8]),
                             ArithF64(OpFromByte(c.code[5]), as_number(c.constants[1]),
                                      as_number(c.constants[2])),
                             as_number(c.constants[3]))))

\* C26: interpret_chunk on a chunk of Constant pushes and arithmetic opcodes
\* over numbers that ends in Return starts at ip = 0, executes each
\* instruction once, in order, and returns Ok with the value of the
\* expression as the only value on the stack.
C26_DemoChunkRuns ==
  (last_call.op = "interpret_chunk" /\ IsDemoChunk(chunk))
    => /\ last_step.ops = SubSeq(DemoOps(chunk), 1, Len(last_step.ops))
       /\ last_step.ops = <<>> => ip = 0
       /\ running <=> Len(last_step.ops) < Len(DemoOps(chunk))
       /\ result.kind = "Ok"
       /\ ~running => ip = Len(chunk.code) /\ stack = <<DemoValue(chunk)>>

\* The run of the chunk of manual_demo has ended with -((1.2 + 2.3) / 5.6).
C26_ManualDemoRan ==
  /\ last_call.op = "interpret_chunk"
  /\ chunk = ManualDemo
  /\ ~running
  /\ last_step.ops = <<"Constant", "Constant", "Add", "Constant", "Divide", "Negate", "Return">>
  /\ stack = <<number_val(Frac(-5, 8))>>

\* C27: when a block closes, end_scope emits one Pop for each local declared
\* in the block and none for the locals of the enclosing scopes, and
\* local_count and scope_depth are again what they were when the block was
\* entered.  The block { var vN = 1; } declares one local: after the two bytes
\* of its Constant comes one Pop.
C27_EndScopePopsBlockLocals ==
  [][ (last_call'.src = ClosedBlock(parser.local_count) /\ IsOk(parser'))
        => /\ Appended(parser, parser')
                = <<OpByte("Constant"), Len(parser.chunk.constants), OpByte("Pop")>>
           /\ parser'.local_count = parser.local_count
           /\ parser'.scope_depth = parser.scope_depth
    ]_vars

\* The block { var v0 = 1; } has been compiled at the top level: no Pop follows
\* the Constant and the local is still counted.
C27_LocalOutlivesBlock ==
  /\ last_call.op = "compile"
  /\ last_call.src = ClosedBlock(0)
  /\ IsOk(parser)
  /\ parser.scope_depth = 0
  /\ parser.local_count = 1
  /\ parser.chunk.code = <<OpByte("Constant"), 0>>

\* The values the reads of locals of a source give, in the order of the reads
LocalReads(src) ==
  CASE src = "{ var a = 1; { var a = 2; print a; } print a; }" -> <<Num(2), Num(1)>>
    [] src = "{ { var a = 1; } var b = 2; print b; }" -> <<Num(2)>>
    [] src = "{ var a = 1; { var b = 2; } var c = 3; print c; print a; }"
         -> <<Num(3), Num(1)>>
    [] src = "{ var a = 1; var b = 5; b = 3; print a; print b; }" -> <<Num(1), Num(3)>>
    [] src = "{ if (false) { var a = 1; } var b = 2; print b; }" -> <<Num(2)>>

\* C28: at every GetLocal executed in a compiled program the operand is the
\* stack index that holds the value of the local the source refers to, so the
\* value the instruction pushes is the value of that local: the one its
\* initializer or the last assignment to it gave.  This holds also for a local
\* declared after an earlier block has been closed.
C28_SlotHoldsTheLocal ==
  [][ (/\ last_call.src \in LocalReadSources
       /\ last_step' # last_step
       /\ last_step'.op = "GetLocal")
        => /\ last_step'.kind = "Ok"
           /\ Top(stack') = LocalReads(last_call.src)[Count(last_step'.ops, "GetLocal")]
    ]_vars

\* The first read of a in { var a = 1; { var a = 2; print a; } print a; } has
\* been executed with the two locals on the stack: its operand is the slot 0.
C28_OuterLocalRead ==
  /\ last_call.src = ShadowProgram
  /\ last_step.op = "GetLocal"
  /\ Count(last_step.ops, "GetLocal") = 1
  /\ chunk.code[last_step.pre.ip + 2] = 0
  /\ last_step.pre.stack = <<Num(1), Num(2)>>
  /\ Top(stack) = Num(1)

\* C29: whenever synchronize returns, panic_mode is false and the parser is at
\* a statement boundary: current is Eof, or previous is ';', or current is one
\* of class, fun, var, for, if, while, print, return; also when Error tokens
\* lie among the tokens it skips.
C29_SynchronizeStopsAtBoundary ==
  last_call.op = "synchronize" => ~parser.panic_mode /\ AtStatementBoundary(parser)

\* synchronize has returned from a b @ c; var d; at the Error token of '@',
\* with panic_mode set again.
C29_StoppedAtErrorToken ==
  /\ last_call.op = "synchronize"
  /\ last_call.src = "a b @ c; var d;"
  /\ parser.current.token_type = "Error"
  /\ parser.previous.lexeme = "b"
  /\ parser.panic_mode
  /\ parser.res.kind = "CompileError"
\* C30: on every chunk the compiler produces, each instruction the loop of run
\* executes leaves ip strictly greater than it was before the instruction, and
\* the number of instructions executed never passes the length of the code.
C30_EveryStepAdvances ==
  [][ Len(last_step'.ops) = Len(last_step.ops) + 1
        => /\ ip' > ip
           /\ Len(last_step'.ops) <= Len(parser.chunk.code) ]_vars

\* The JumpIfFalse of if (false) { nil; ... } with 32764 statements has been
\* executed: its operand is 65532, and the run goes on at index 0.
C30_JumpedBack ==
  /\ last_call.src = LongSource("False", 32764)
  /\ Len(parser.chunk.code) = 65538
  /\ SubSeq(parser.chunk.code, 2, 4) = <<OpByte("JumpIfFalse"), 255, 252>>
  /\ last_step.op = "JumpIfFalse"
  /\ last_step.kind = "Ok"
  /\ last_step.pre.ip = 1
  /\ ip = 0
  /\ running

=============================================================================
